---- MODULE Spec2Model ----
(***************************************************************************)
(* Model of the ICE agent of OnlineSubsystemICE (FICEAgent, ICEAgent.cpp). *)
(* Every agent is a record whose fields are the members of FICEAgent; a    *)
(* method of the class is an operator from the agent record (and the       *)
(* outcomes the platform can produce) to the new agent record, the value   *)
(* returned and the datagrams handed to the transport.                     *)
(***************************************************************************)
EXTENDS Integers, Sequences, FiniteSets, TLC

VARIABLES
    agents,       \* agents[a]: the members of FICEAgent a (a socket holds its pending datagrams)
    ret,          \* the last public operation, its caller-visible result
    outbox,       \* the datagrams the last operation handed to the transport
    sinceRefresh, \* sinceRefresh[a]: tick time of a since the TURN server last granted it an
                  \* Allocate or a Refresh (0 while its allocation is not marked active)
    probe,        \* the arguments and the result of a pure function under test
    files,        \* the .json files of the shared signaling directory
    peers,        \* peers[p]: the members of FLocalFileSignaling p
    delivered,    \* delivered[p]: the messages OnSignalReceived was broadcast for, in order
    now           \* the UTC clock of the machine (s)

\* the variables of the signaling adapters and of the functions under test
others == <<probe, files, peers, delivered, now>>

vars == <<agents, ret, outbox, sinceRefresh, probe, files, peers, delivered, now>>

----------------------------------------------------------------------------
(* Bounds of the model *)

MaxRemote == 1      \* remote candidates an agent is given at most
MaxSignalled == 2   \* the same, where only the selection of the pair is explored
MaxQueue == 1       \* datagrams pending on a data socket at most
MaxTime == 5        \* tick time (s) accumulated during one handshake at most
MaxIdle == 1        \* tick time (s) accumulated in one stay in another state at most

----------------------------------------------------------------------------
(* Program constants *)

MAX_DIRECT_ATTEMPTS == 3
MAX_TOTAL_ATTEMPTS == 4
RetryDelay == 1
MAX_HANDSHAKE_TIMEOUT == 5
HANDSHAKE_RETRY_INTERVAL == 1
HANDSHAKE_PACKET_SIZE == 9
CHANNEL_NUMBER_MIN == 16384
CHANNEL_NUMBER_MAX == 32767
DefaultLifetime == 600

Agents == {"A", "B"}
Peer(a) == IF a = "A" THEN "B" ELSE "A"

States == {"New", "Gathering", "ConnectingDirect", "ConnectingRelay",
           "PerformingHandshake", "Connected", "Failed"}

CandidateTypes == {"Host", "ServerReflexive", "Relayed"}

----------------------------------------------------------------------------
(* The platform: addresses, ports, datagrams *)

LocalHostAddr == [A |-> "10.0.0.1", B |-> "10.0.0.2"]
PublicAddr == [A |-> "1.1.1.1", B |-> "2.2.2.2"]
PublicPort == [A |-> 4001, B |-> 4002]
RelayAddr == [A |-> "9.9.9.1", B |-> "9.9.9.2"]
RelayPort == [A |-> 5001, B |-> 5002]
AnyAddress == "0.0.0.0"

\* ports the OS hands out on bind to port 0
EphemeralPorts == {7001}

\* ISocketSubsystem::GetAddressFromString: the empty string is no address
GetAddressFromString(addr) == addr # ""

\* FSocket* Socket: nullptr, or a bound UDP socket with its receive queue
NoSocket == [addr |-> "", bound |-> FALSE, port |-> 0, queue |-> << >>]
BoundSocket(addr, port) == [addr |-> addr, bound |-> TRUE, port |-> port, queue |-> << >>]

\* application payloads and their sizes in bytes
Payloads == {"ping", "payload12"}
PayloadSize == [ping |-> 4, payload12 |-> 12]

\* a datagram: the 9-byte handshake packet "ICEH"|type|timestamp, or application bytes
HelloRequest == [kind |-> "HelloRequest", data |-> "", size |-> HANDSHAKE_PACKET_SIZE]
HelloResponse == [kind |-> "HelloResponse", data |-> "", size |-> HANDSHAKE_PACKET_SIZE]
AppDatagram(p) == [kind |-> "App", data |-> p, size |-> PayloadSize[p]]
Datagrams == {HelloRequest, HelloResponse} \cup {AppDatagram(p) : p \in Payloads}

\* FSocket::SendTo: the whole buffer, a part of it, or an error
SendOutcomes == {"full", "partial", "fail"}

----------------------------------------------------------------------------
(* Candidates *)

RECURSIVE BitOr(_, _)
BitOr(x, y) ==
    IF x = 0 THEN y
    ELSE IF y = 0 THEN x
    ELSE (IF (x % 2 = 1) \/ (y % 2 = 1) THEN 1 ELSE 0) + 2 * BitOr(x \div 2, y \div 2)

TypePreference(Type) ==
    CASE Type = "Host" -> 126
      [] Type = "ServerReflexive" -> 100
      [] Type = "Relayed" -> 0
      [] OTHER -> 0

CalculatePriority_NoComponent(Type, LocalPreference, ComponentId) ==
    BitOr(TypePreference(Type) * (2 ^ 24), LocalPreference * (2 ^ 8))

CalculatePriority(Type, LocalPreference, ComponentId) ==
    BitOr(BitOr(TypePreference(Type) * (2 ^ 24), LocalPreference * (2 ^ 8)), 256 - ComponentId)

\* FICECandidate()
DefaultCandidate ==
    [Type |-> "Host", ComponentId |-> 0, Foundation |-> "", Transport |-> "UDP",
     Priority |-> 0, Address |-> "", Port |-> 0]

MakeCandidate(found, type, addr, port) ==
    [Type |-> type, ComponentId |-> 1, Foundation |-> found, Transport |-> "UDP",
     Priority |-> CalculatePriority(type, 65535, 1),
     Address |-> addr, Port |-> port]

HostCandidate(a) == MakeCandidate("1", "Host", LocalHostAddr[a], 0)
SrflxCandidate(a) == MakeCandidate("2", "ServerReflexive", PublicAddr[a], PublicPort[a])
RelayCandidate(a) == MakeCandidate("3", "Relayed", RelayAddr[a], RelayPort[a])

\* the candidates of seq whose type is in types, in order
RECURSIVE SelectSeqBy(_, _)
SelectSeqBy(seq, types) ==
    IF seq = << >> THEN << >>
    ELSE IF Head(seq).Type \in types
         THEN <<Head(seq)>> \o SelectSeqBy(Tail(seq), types)
         ELSE SelectSeqBy(Tail(seq), types)

\* the scan with >= in place of >: among equal priorities the latest wins
RECURSIVE BestFrom_LastWins(_, _, _)
BestFrom_LastWins(Candidates, i, best) ==
    IF i > Len(Candidates) THEN best
    ELSE BestFrom_LastWins(Candidates, i + 1,
                           IF Candidates[i].Priority >= best.Priority THEN Candidates[i] ELSE best)

RECURSIVE BestFrom(_, _, _)
BestFrom(Candidates, i, best) ==
    IF i > Len(Candidates) THEN best
    ELSE BestFrom(Candidates, i + 1,
                  IF Candidates[i].Priority > best.Priority THEN Candidates[i] ELSE best)

SelectHighestPriorityCandidate(Candidates) ==
    IF Len(Candidates) = 0 THEN DefaultCandidate
    ELSE BestFrom(Candidates, 2, Candidates[1])

----------------------------------------------------------------------------
(* The agent *)

\* FICEAgent::FICEAgent
NewAgent(config) ==
    [Config |-> config,
     LocalCandidates |-> << >>,
     RemoteCandidates |-> << >>,
     Socket |-> NoSocket,
     TURNSocket |-> FALSE,
     TURNServerAddr |-> FALSE,
     TURNAllocationLifetime |-> DefaultLifetime,
     TimeSinceTURNRefresh |-> 0,
     TURNChannelNumber |-> CHANNEL_NUMBER_MIN,
     bTURNAllocationActive |-> FALSE,
     bIsConnected |-> FALSE,
     SelectedLocalCandidate |-> DefaultCandidate,
     SelectedRemoteCandidate |-> DefaultCandidate,
     ConnectionState |-> "New",
     DirectConnectionAttempts |-> 0,
     TotalConnectionAttempts |-> 0,
     TimeSinceLastAttempt |-> 0,
     bHandshakeSent |-> FALSE,
     bHandshakeReceived |-> FALSE,
     TimeSinceHandshakeStart |-> 0,
     TimeSinceLastHandshakeSend |-> 0]

\* FICEAgentConfig: number of STUN and TURN servers, TURN credentials present
FullConfig == [STUNServers |-> 1, TURNServers |-> 1, TURNCredentials |-> TRUE]
TurnConfig == [STUNServers |-> 0, TURNServers |-> 1, TURNCredentials |-> TRUE]
HostOnlyConfig == [STUNServers |-> 0, TURNServers |-> 0, TURNCredentials |-> FALSE]

\* OnConnectionStateChanged.Broadcast: an agent with a handler bound has the field
\* OnConnectionStateChanged, the state its subscriber holds; with no handler bound
\* the broadcast does nothing
OnConnectionStateChanged_Broadcast(s, NewState) ==
    IF "OnConnectionStateChanged" \in DOMAIN s
    THEN [s EXCEPT !.OnConnectionStateChanged = NewState]
    ELSE s

UpdateConnectionState(s, NewState) ==
    IF s.ConnectionState = NewState THEN s
    ELSE [OnConnectionStateChanged_Broadcast([s EXCEPT !.ConnectionState = NewState], NewState)
             EXCEPT !.TimeSinceLastAttempt = 0]

\* OnConnectionStateChanged_Handle: binds a subscriber, which reads the state once
\* and from then on keeps the state it was notified last
OnConnectionStateChanged_Handle(s) ==
    [Config |-> s.Config,
     LocalCandidates |-> s.LocalCandidates,
     RemoteCandidates |-> s.RemoteCandidates,
     Socket |-> s.Socket,
     TURNSocket |-> s.TURNSocket,
     TURNServerAddr |-> s.TURNServerAddr,
     TURNAllocationLifetime |-> s.TURNAllocationLifetime,
     TimeSinceTURNRefresh |-> s.TimeSinceTURNRefresh,
     TURNChannelNumber |-> s.TURNChannelNumber,
     bTURNAllocationActive |-> s.bTURNAllocationActive,
     bIsConnected |-> s.bIsConnected,
     SelectedLocalCandidate |-> s.SelectedLocalCandidate,
     SelectedRemoteCandidate |-> s.SelectedRemoteCandidate,
     ConnectionState |-> s.ConnectionState,
     DirectConnectionAttempts |-> s.DirectConnectionAttempts,
     TotalConnectionAttempts |-> s.TotalConnectionAttempts,
     TimeSinceLastAttempt |-> s.TimeSinceLastAttempt,
     bHandshakeSent |-> s.bHandshakeSent,
     bHandshakeReceived |-> s.bHandshakeReceived,
     TimeSinceHandshakeStart |-> s.TimeSinceHandshakeStart,
     TimeSinceLastHandshakeSend |-> s.TimeSinceLastHandshakeSend,
     OnConnectionStateChanged |-> s.ConnectionState]

\* CompleteHandshake without its test of the two flags
CompleteHandshake_Unchecked(s) ==
    UpdateConnectionState([s EXCEPT !.bIsConnected = TRUE], "Connected")

CompleteHandshake(s) ==
    IF s.bHandshakeSent /\ s.bHandshakeReceived
    THEN UpdateConnectionState([s EXCEPT !.bIsConnected = TRUE], "Connected")
    ELSE s

\* the result of a method: new members, returned value, datagrams sent
Result(s, val, out) == [s |-> s, val |-> val, out |-> out]

Sent(sock, addr, port, dgram, snd) ==
    [addr |-> addr, port |-> port, sock |-> sock, dgram |-> dgram, snd |-> snd]

\* SendHandshake that restarts the timers at every request it sends
SendHandshake_AlwaysRestart(s, snd) ==
    IF ~s.Socket.bound THEN Result(s, FALSE, << >>)
    ELSE IF ~GetAddressFromString(s.SelectedRemoteCandidate.Address) THEN Result(s, FALSE, << >>)
    ELSE
      LET pkt == IF s.bHandshakeReceived THEN HelloResponse ELSE HelloRequest
          out == <<Sent("data", s.SelectedRemoteCandidate.Address,
                        s.SelectedRemoteCandidate.Port, pkt, snd)>>
      IN IF snd = "full"
         THEN IF ~s.bHandshakeReceived
              THEN Result([s EXCEPT !.bHandshakeSent = TRUE,
                                    !.TimeSinceHandshakeStart = 0,
                                    !.TimeSinceLastHandshakeSend = 0], TRUE, out)
              ELSE Result(s, TRUE, out)
         ELSE Result(s, FALSE, out)

SendHandshake(s, snd) ==
    IF ~s.Socket.bound THEN Result(s, FALSE, << >>)
    ELSE IF ~GetAddressFromString(s.SelectedRemoteCandidate.Address) THEN Result(s, FALSE, << >>)
    ELSE
      LET pkt == IF s.bHandshakeReceived THEN HelloResponse ELSE HelloRequest
          out == <<Sent("data", s.SelectedRemoteCandidate.Address,
                        s.SelectedRemoteCandidate.Port, pkt, snd)>>
      IN IF snd = "full"
         THEN IF ~s.bHandshakeReceived /\ ~s.bHandshakeSent
              THEN Result([s EXCEPT !.bHandshakeSent = TRUE,
                                    !.TimeSinceHandshakeStart = 0,
                                    !.TimeSinceLastHandshakeSend = 0], TRUE, out)
              ELSE Result(s, TRUE, out)
         ELSE Result(s, FALSE, out)

\* ProcessReceivedData that answers a HELLO response as it answers a request
ProcessReceivedData_AnswerAll(s, snd) ==
    IF ~s.Socket.bound THEN Result(s, FALSE, << >>)
    ELSE IF Len(s.Socket.queue) = 0 THEN Result(s, FALSE, << >>)
    ELSE
      LET pkt == Head(s.Socket.queue)
          s1 == [s EXCEPT !.Socket.queue = Tail(@)]
      IN IF pkt.size < HANDSHAKE_PACKET_SIZE THEN Result(s1, FALSE, << >>)
         ELSE IF pkt.kind \in {"HelloRequest", "HelloResponse"}
         THEN LET r == SendHandshake([s1 EXCEPT !.bHandshakeReceived = TRUE], snd)
              IN Result(CompleteHandshake(r.s), TRUE, r.out)
         ELSE Result(s1, FALSE, << >>)

\* 4-byte payloads are shorter than a handshake packet, 12-byte ones are not
ProcessReceivedData(s, snd) ==
    IF ~s.Socket.bound THEN Result(s, FALSE, << >>)
    ELSE IF Len(s.Socket.queue) = 0 THEN Result(s, FALSE, << >>)
    ELSE
      LET pkt == Head(s.Socket.queue)
          s1 == [s EXCEPT !.Socket.queue = Tail(@)]
      IN IF pkt.size < HANDSHAKE_PACKET_SIZE THEN Result(s1, FALSE, << >>)
         ELSE IF pkt.kind = "HelloRequest"
         THEN LET r == SendHandshake([s1 EXCEPT !.bHandshakeReceived = TRUE], snd)
              IN Result(CompleteHandshake(r.s), TRUE, r.out)
         ELSE IF pkt.kind = "HelloResponse"
         THEN Result(CompleteHandshake([s1 EXCEPT !.bHandshakeReceived = TRUE]), TRUE, << >>)
         ELSE Result(s1, FALSE, << >>)

CleanupSocketOnError(s) ==
    UpdateConnectionState([s EXCEPT !.Socket = NoSocket], "Failed")

TURNReady(s) == s.TURNSocket /\ s.bTURNAllocationActive /\ s.TURNServerAddr

TurnRequest(kind) == Sent("turn", "turnserver", 3478, [kind |-> kind, data |-> "", size |-> 0], "full")

\* reply: TRUE for a Success response, FALSE for an error, a timeout or a failed send/recv
PerformTURNCreatePermission(s, PeerAddress, reply) ==
    IF ~TURNReady(s) THEN Result(s, FALSE, << >>)
    ELSE IF ~GetAddressFromString(PeerAddress) THEN Result(s, FALSE, << >>)
    ELSE Result(s, reply, <<TurnRequest("CreatePermission")>>)

PerformTURNChannelBind(s, ChannelNumber, reply) ==
    IF ~TURNReady(s) THEN Result(s, FALSE, << >>)
    ELSE Result(IF reply THEN [s EXCEPT !.TURNChannelNumber = ChannelNumber] ELSE s,
                reply, <<TurnRequest("ChannelBind")>>)

\* the first local candidate with the selected address and type and port 0 gets the port
RECURSIVE UpdateCandidatePort(_, _, _)
UpdateCandidatePort(cands, sel, ActualPort) ==
    IF cands = << >> THEN << >>
    ELSE IF Head(cands).Address = sel.Address /\ Head(cands).Type = sel.Type /\ Head(cands).Port = 0
         THEN <<[Head(cands) EXCEPT !.Port = ActualPort]>> \o Tail(cands)
         ELSE <<Head(cands)>> \o UpdateCandidatePort(Tail(cands), sel, ActualPort)

\* outcomes of the platform during StartConnectivityChecks:
\*   create: CreateSocket succeeded; bind: 0 when Bind failed, else the port the OS
\*   assigns to a bind to port 0; perm, chan: the TURN server's replies; snd: SendTo
StartOutcomes ==
    [snd : SendOutcomes, create : BOOLEAN, bind : {0} \cup EphemeralPorts,
     perm : BOOLEAN, chan : BOOLEAN]

\* ICEAgent.cpp 1146-1197: TURN permission and channel, then the first HELLO
StartHandshake(s, env) ==
    LET relay ==
          IF s.SelectedLocalCandidate.Type = "Relayed"
          THEN LET perm == PerformTURNCreatePermission(s, s.SelectedRemoteCandidate.Address, env.perm)
                   chan == PerformTURNChannelBind(perm.s, s.TURNChannelNumber, env.chan)
               IN IF perm.val THEN Result(chan.s, TRUE, perm.out \o chan.out)
                  ELSE Result(perm.s, TRUE, perm.out)
          ELSE Result(s, TRUE, << >>)
        hs == SendHandshake(UpdateConnectionState(relay.s, "PerformingHandshake"), env.snd)
    IN IF s.SelectedLocalCandidate.Type = "Relayed" /\ ~s.bTURNAllocationActive
       THEN Result(CleanupSocketOnError(s), FALSE, << >>)
       ELSE IF s.SelectedLocalCandidate.Type = "Relayed" /\ ~s.TURNSocket
       THEN Result(CleanupSocketOnError(s), FALSE, << >>)
       ELSE Result(hs.s, TRUE, relay.out \o hs.out)

\* ICEAgent.cpp 1046-1144: create and bind the data socket, read back the port
OpenSocket(s, env) ==
    LET sel == s.SelectedLocalCandidate
        anyBind == sel.Type \in {"ServerReflexive", "Relayed"}
        reqPort == IF anyBind THEN 0 ELSE sel.Port
        ActualPort == IF reqPort = 0 THEN env.bind ELSE reqPort
        bound == [s EXCEPT !.Socket =
                     BoundSocket(IF anyBind THEN AnyAddress ELSE sel.Address, ActualPort)]
        updated == IF sel.Port = 0
                   THEN [bound EXCEPT !.SelectedLocalCandidate.Port = ActualPort,
                                      !.LocalCandidates = UpdateCandidatePort(@, sel, ActualPort)]
                   ELSE bound
    IN IF ~GetAddressFromString(s.SelectedRemoteCandidate.Address)
       THEN Result(UpdateConnectionState(s, "Failed"), FALSE, << >>)
       ELSE IF ~GetAddressFromString(sel.Address)
       THEN Result(UpdateConnectionState(s, "Failed"), FALSE, << >>)
       ELSE IF ~env.create
       THEN Result(UpdateConnectionState(s, "Failed"), FALSE, << >>)
       ELSE IF env.bind = 0
       THEN Result(CleanupSocketOnError(s), FALSE, << >>)
       ELSE StartHandshake(updated, env)

DirectTypes == {"Host", "ServerReflexive"}
RelayTypes == {"Relayed"}

\* ICEAgent.cpp 957-1044: the stage and the pair; ok is FALSE when the method returns
SelectPair(s) ==
    IF s.DirectConnectionAttempts < MAX_DIRECT_ATTEMPTS
    THEN LET s1 == [UpdateConnectionState(s, "ConnectingDirect")
                       EXCEPT !.DirectConnectionAttempts = @ + 1]
             DirectLocalCandidates == SelectSeqBy(s1.LocalCandidates, DirectTypes)
             DirectRemoteCandidates == SelectSeqBy(s1.RemoteCandidates, DirectTypes)
         IN IF Len(DirectLocalCandidates) > 0 /\ Len(DirectRemoteCandidates) > 0
            THEN [ok |-> TRUE,
                  s |-> [s1 EXCEPT
                     !.SelectedLocalCandidate = SelectHighestPriorityCandidate(DirectLocalCandidates),
                     !.SelectedRemoteCandidate = SelectHighestPriorityCandidate(DirectRemoteCandidates)]]
            ELSE [ok |-> TRUE, s |-> UpdateConnectionState(s1, "ConnectingRelay")]
    ELSE LET s1 == UpdateConnectionState(s, "ConnectingRelay")
             RelayLocalCandidates == SelectSeqBy(s1.LocalCandidates, RelayTypes)
             RelayRemoteCandidates == SelectSeqBy(s1.RemoteCandidates, RelayTypes)
         IN IF Len(RelayLocalCandidates) > 0 /\ Len(RelayRemoteCandidates) > 0
            THEN [ok |-> TRUE,
                  s |-> [s1 EXCEPT
                     !.SelectedLocalCandidate = SelectHighestPriorityCandidate(RelayLocalCandidates),
                     !.SelectedRemoteCandidate = SelectHighestPriorityCandidate(RelayRemoteCandidates)]]
            ELSE [ok |-> FALSE, s |-> UpdateConnectionState(s1, "Failed")]

\* ICEAgent.cpp 931-955: count the attempt, require candidates, drop the old socket
CountAttempt(s, env) ==
    LET counted == [s EXCEPT !.TotalConnectionAttempts = @ + 1]
        reset == [counted EXCEPT !.Socket = NoSocket,
                                 !.bHandshakeSent = FALSE,
                                 !.bHandshakeReceived = FALSE,
                                 !.TimeSinceHandshakeStart = 0,
                                 !.TimeSinceLastHandshakeSend = 0]
        pair == SelectPair(reset)
    IN IF Len(s.LocalCandidates) = 0 \/ Len(s.RemoteCandidates) = 0
       THEN Result(UpdateConnectionState(counted, "Failed"), FALSE, << >>)
       ELSE IF ~pair.ok THEN Result(pair.s, FALSE, << >>)
       ELSE OpenSocket(pair.s, env)

\* StartConnectivityChecks without its early return for a connected agent
StartConnectivityChecks_Reentrant(s, env) ==
    IF s.TotalConnectionAttempts >= MAX_TOTAL_ATTEMPTS
    THEN Result(UpdateConnectionState(s, "Failed"), FALSE, << >>)
    ELSE CountAttempt(s, env)

\* StartConnectivityChecks with the budget test off by one
StartConnectivityChecks_OneMore(s, env) ==
    IF s.ConnectionState = "Connected" THEN Result(s, TRUE, << >>)
    ELSE IF s.TotalConnectionAttempts > MAX_TOTAL_ATTEMPTS
    THEN Result(UpdateConnectionState(s, "Failed"), FALSE, << >>)
    ELSE CountAttempt(s, env)

StartConnectivityChecks(s, env) ==
    IF s.ConnectionState = "Connected" THEN Result(s, TRUE, << >>)
    ELSE IF s.TotalConnectionAttempts >= MAX_TOTAL_ATTEMPTS
    THEN Result(UpdateConnectionState(s, "Failed"), FALSE, << >>)
    ELSE CountAttempt(s, env)

----------------------------------------------------------------------------
(* TURN allocation and refresh, seen from the agent *)

NoLifetime == 0 - 1
\* LIFETIME values a server reports (NoLifetime: the attribute is absent)
LifetimeReplies == {5}

\* What the platform and the TURN server do with one Allocate request:
\*   "sendfail"   SendTo fails
\*   "timeout"    nothing arrives within the 5 s of Wait
\*   "recvfail"   RecvFrom fails
\*   "malformed"  fewer than 20 bytes, another message type, or a short Success
\*   "success"    Allocate Success (0x0103); relay: it carries an IPv4
\*                XOR-RELAYED-ADDRESS; lifetime: its LIFETIME (NoLifetime: none)
\*   "error"      Allocate Error (0x0113) with ERROR-CODE code; realm, nonce: it
\*                carries a non-empty REALM, a non-empty NONCE
AllocReply(kind, code, realm, nonce, relay, lifetime) ==
    [kind |-> kind, relay |-> relay, code |-> code, realm |-> realm,
     nonce |-> nonce, lifetime |-> lifetime]

AllocTimeout == AllocReply("timeout", 0, FALSE, FALSE, FALSE, NoLifetime)
AllocSuccess(l) == AllocReply("success", 0, FALSE, FALSE, TRUE, l)

\* the retry that does not look at bIsRetry
RECURSIVE PerformTURNAllocationRequest_RetryAgain(_, _, _, _, _)
PerformTURNAllocationRequest_RetryAgain(s, Realm, Nonce, bIsRetry, replies) ==
    LET reply == IF replies = << >> THEN AllocTimeout ELSE Head(replies)
        request == TurnRequest(IF Realm /\ Nonce THEN "AllocateAuth" ELSE "Allocate")
        again == PerformTURNAllocationRequest_RetryAgain(s, TRUE, TRUE, TRUE, Tail(replies))
    IN CASE reply.kind = "sendfail" -> Result(s, FALSE, << >>)
         [] reply.kind = "success" ->
              Result([s EXCEPT !.TURNAllocationLifetime =
                                   IF reply.lifetime = NoLifetime THEN @ ELSE reply.lifetime],
                     reply.relay, <<request>>)
         [] reply.kind = "error" ->
              IF reply.code = 401 /\ reply.realm /\ reply.nonce
              THEN Result(again.s, again.val, <<request>> \o again.out)
              ELSE Result(s, FALSE, <<request>>)
         [] OTHER -> Result(s, FALSE, <<request>>)

\* PerformTURNAllocationRequest on the open TURN socket; Realm, Nonce: the argument
\* is not empty; replies: what happens to this request and to the ones after it
RECURSIVE PerformTURNAllocationRequest(_, _, _, _, _)
PerformTURNAllocationRequest(s, Realm, Nonce, bIsRetry, replies) ==
    LET reply == IF replies = << >> THEN AllocTimeout ELSE Head(replies)
        request == TurnRequest(IF Realm /\ Nonce THEN "AllocateAuth" ELSE "Allocate")
        again == PerformTURNAllocationRequest(s, TRUE, TRUE, TRUE, Tail(replies))
    IN CASE reply.kind = "sendfail" -> Result(s, FALSE, << >>)
         [] reply.kind = "success" ->
              Result([s EXCEPT !.TURNAllocationLifetime =
                                   IF reply.lifetime = NoLifetime THEN @ ELSE reply.lifetime],
                     reply.relay, <<request>>)
         [] reply.kind = "error" ->
              IF reply.code = 401 /\ reply.realm /\ reply.nonce /\ ~bIsRetry
              THEN Result(again.s, again.val, <<request>> \o again.out)
              ELSE Result(s, FALSE, <<request>>)
         [] OTHER -> Result(s, FALSE, <<request>>)

\* what PerformTURNAllocation meets: create: CreateSocket succeeds; resolve: the
\* server name resolves; replies: the replies to its Allocate requests
AllocEnv(create, resolve, replies) ==
    [create |-> create, replies |-> replies, resolve |-> resolve]

AllocUnresolved == AllocEnv(TRUE, FALSE, << >>)
AllocNoSocket == AllocEnv(FALSE, TRUE, << >>)
AllocFails == AllocEnv(TRUE, TRUE, <<AllocTimeout>>)
AllocSucceeds(l) == AllocEnv(TRUE, TRUE, <<AllocSuccess(l)>>)

\* PerformTURNAllocation: the host does not resolve, CreateSocket fails, the exchange
\* fails, or Allocate Success
AllocOutcomes ==
    {AllocUnresolved, AllocNoSocket, AllocFails}
    \cup {AllocSucceeds(l) : l \in LifetimeReplies}

PerformTURNAllocation(s, env) ==
    IF ~s.Config.TURNCredentials THEN Result(s, FALSE, << >>)
    ELSE IF ~env.resolve THEN Result(s, FALSE, << >>)
    ELSE IF ~env.create THEN Result([s EXCEPT !.TURNSocket = FALSE], FALSE, << >>)
    ELSE LET open == [s EXCEPT !.TURNSocket = TRUE, !.TURNServerAddr = TRUE]
             r == PerformTURNAllocationRequest(open, FALSE, FALSE, FALSE, env.replies)
         IN IF r.val
            THEN Result([r.s EXCEPT !.bTURNAllocationActive = TRUE,
                                    !.TimeSinceTURNRefresh = 0],
                        TRUE, r.out)
            ELSE Result([r.s EXCEPT !.TURNSocket = FALSE], FALSE, r.out)

\* PerformTURNRefresh: no usable response, Refresh Error, or Refresh Success
RefreshOutcomes ==
    {[kind |-> k, lifetime |-> NoLifetime] : k \in {"noresponse", "error"}}
    \cup {[kind |-> "success", lifetime |-> l] : l \in LifetimeReplies}

\* the replies after which the refresh timer does not run below zero
SettledRefreshOutcomes == {o \in RefreshOutcomes : o.kind # "noresponse"}

PerformTURNRefresh(s, outcome) ==
    IF ~TURNReady(s) THEN Result(s, FALSE, << >>)
    ELSE IF outcome.kind = "success"
    THEN Result([s EXCEPT !.TimeSinceTURNRefresh = 0,
                          !.TURNAllocationLifetime =
                              IF outcome.lifetime = NoLifetime THEN @ ELSE outcome.lifetime],
                TRUE, <<TurnRequest("Refresh")>>)
    ELSE IF outcome.kind = "error"
    THEN Result([s EXCEPT !.bTURNAllocationActive = FALSE], FALSE, <<TurnRequest("Refresh")>>)
    ELSE Result(s, FALSE, <<TurnRequest("Refresh")>>)

\* TURNAllocationLifetime * 0.8f
RefreshInterval(lifetime) == (lifetime * 4) \div 5

----------------------------------------------------------------------------
(* The public operations *)

GatherOutcomes == [host : BOOLEAN, stun : BOOLEAN, turn : AllocOutcomes]

GatherCandidates(a, s, env) ==
    LET host == IF env.host THEN <<HostCandidate(a)>> ELSE << >>
        srflx == IF s.Config.STUNServers > 0 /\ env.stun THEN <<SrflxCandidate(a)>> ELSE << >>
        alloc == IF s.Config.TURNServers > 0
                 THEN PerformTURNAllocation(s, env.turn)
                 ELSE Result(s, FALSE, << >>)
        relay == IF alloc.val THEN <<RelayCandidate(a)>> ELSE << >>
        cands == host \o srflx \o relay
    IN Result([alloc.s EXCEPT !.LocalCandidates = cands], Len(cands) > 0, alloc.out)

AddRemoteCandidate(s, Candidate) ==
    [s EXCEPT !.RemoteCandidates = Append(@, Candidate)]

TickOutcomes == [snd : SendOutcomes, refresh : RefreshOutcomes, start : StartOutcomes]

Tick(s, DeltaTime, env) ==
    LET s1 == [s EXCEPT !.TimeSinceLastAttempt = @ + DeltaTime]
        timed == [s1 EXCEPT !.TimeSinceTURNRefresh = @ + DeltaTime]
        interval == RefreshInterval(s1.TURNAllocationLifetime)
        refresh == PerformTURNRefresh(timed, env.refresh)
        turn == IF ~s1.bTURNAllocationActive THEN Result(s1, TRUE, << >>)
                ELSE IF timed.TimeSinceTURNRefresh >= interval
                THEN IF ~refresh.val
                     THEN Result([refresh.s EXCEPT !.TimeSinceTURNRefresh = interval - 30],
                                 FALSE, refresh.out)
                     ELSE refresh
                ELSE Result(timed, TRUE, << >>)
        s2 == turn.s
        restart == StartConnectivityChecks(s2, env.start)
        rx == ProcessReceivedData(s2, env.snd)
        s3 == [rx.s EXCEPT !.TimeSinceHandshakeStart = @ + DeltaTime,
                           !.TimeSinceLastHandshakeSend = @ + DeltaTime]
        retry == SendHandshake(s3, env.snd)
    IN CASE s2.ConnectionState = "ConnectingDirect" ->
              IF s2.TimeSinceLastAttempt >= RetryDelay /\ ~s2.bIsConnected
              THEN Result(restart.s, TRUE, turn.out \o restart.out)
              ELSE Result(s2, TRUE, turn.out)
         [] s2.ConnectionState = "ConnectingRelay" ->
              IF s2.TimeSinceLastAttempt >= RetryDelay /\ ~s2.bIsConnected
              THEN Result(UpdateConnectionState(s2, "Failed"), TRUE, turn.out)
              ELSE Result(s2, TRUE, turn.out)
         [] s2.ConnectionState = "PerformingHandshake" ->
              IF s3.TimeSinceHandshakeStart >= MAX_HANDSHAKE_TIMEOUT
              THEN IF ~s3.bHandshakeSent \/ ~s3.bHandshakeReceived
                   THEN Result(UpdateConnectionState(s3, "Failed"), TRUE, turn.out \o rx.out)
                   ELSE Result(s3, TRUE, turn.out \o rx.out)
              ELSE IF s3.TimeSinceLastHandshakeSend >= HANDSHAKE_RETRY_INTERVAL
                      /\ s3.bHandshakeSent /\ ~s3.bHandshakeReceived
              THEN Result([retry.s EXCEPT !.TimeSinceLastHandshakeSend = 0], TRUE,
                          turn.out \o rx.out \o retry.out)
              ELSE Result(s3, TRUE, turn.out \o rx.out)
         [] s2.ConnectionState = "Connected" ->
              Result(rx.s, TRUE, turn.out \o rx.out)
         [] OTHER -> Result(s2, TRUE, turn.out)

ChannelBound(s) ==
    s.TURNChannelNumber >= CHANNEL_NUMBER_MIN /\ s.TURNChannelNumber <= CHANNEL_NUMBER_MAX

\* the 4-byte ChannelData header in front of the payload
ChannelData(p) == [kind |-> "ChannelData", data |-> p, size |-> 4 + PayloadSize[p]]

\* returns the value of TURNSocket->SendTo, whatever BytesSent is
SendDataThroughTURN(s, p, snd) ==
    IF ~TURNReady(s) THEN Result(s, FALSE, << >>)
    ELSE IF ChannelBound(s)
    THEN Result(s, snd # "fail", <<Sent("turn", "turnserver", 3478, ChannelData(p), snd)>>)
    ELSE Result(s, FALSE, << >>)

UsesRelay(s) == s.SelectedLocalCandidate.Type = "Relayed" /\ s.bTURNAllocationActive

SendData(s, p, snd) ==
    IF ~s.bIsConnected THEN Result(s, FALSE, << >>)
    ELSE IF UsesRelay(s) THEN SendDataThroughTURN(s, p, snd)
    ELSE IF ~s.Socket.bound THEN Result(s, FALSE, << >>)
    ELSE IF ~GetAddressFromString(s.SelectedRemoteCandidate.Address) THEN Result(s, FALSE, << >>)
    ELSE Result(s, snd = "full",
                <<Sent("data", s.SelectedRemoteCandidate.Address,
                       s.SelectedRemoteCandidate.Port, AppDatagram(p), snd)>>)

\* what a read of the TURN socket finds: nothing, or ChannelData carrying a payload
TurnInbound == {"none"} \cup Payloads
NoData == [kind |-> "none", data |-> "", size |-> 0]

ReceiveDataFromTURN(s, inbound) ==
    IF ~s.TURNSocket THEN Result(s, FALSE, NoData)
    ELSE IF inbound = "none" THEN Result(s, FALSE, NoData)
    ELSE Result(s, TRUE, AppDatagram(inbound))

\* out is the datagram copied into the caller's buffer
ReceiveData(s, inbound) ==
    IF ~s.bIsConnected THEN Result(s, FALSE, NoData)
    ELSE IF UsesRelay(s) THEN ReceiveDataFromTURN(s, inbound)
    ELSE IF ~s.Socket.bound THEN Result(s, FALSE, NoData)
    ELSE IF Len(s.Socket.queue) = 0 THEN Result(s, FALSE, NoData)
    ELSE Result([s EXCEPT !.Socket.queue = Tail(@)], TRUE, Head(s.Socket.queue))

\* Close without the reset of the TURN refresh timer
Close_KeepRefreshTimer(s) ==
    [s EXCEPT !.Socket = NoSocket,
              !.TURNSocket = FALSE,
              !.ConnectionState = "New",
              !.bIsConnected = FALSE,
              !.bHandshakeSent = FALSE,
              !.bHandshakeReceived = FALSE,
              !.bTURNAllocationActive = FALSE,
              !.DirectConnectionAttempts = 0,
              !.TotalConnectionAttempts = 0,
              !.TimeSinceLastAttempt = 0,
              !.TimeSinceHandshakeStart = 0,
              !.TimeSinceLastHandshakeSend = 0,
              !.TURNServerAddr = FALSE,
              !.LocalCandidates = << >>,
              !.RemoteCandidates = << >>]

Close(s) ==
    [s EXCEPT !.Socket = NoSocket,
              !.TURNSocket = FALSE,
              !.ConnectionState = "New",
              !.bIsConnected = FALSE,
              !.bHandshakeSent = FALSE,
              !.bHandshakeReceived = FALSE,
              !.bTURNAllocationActive = FALSE,
              !.DirectConnectionAttempts = 0,
              !.TotalConnectionAttempts = 0,
              !.TimeSinceLastAttempt = 0,
              !.TimeSinceHandshakeStart = 0,
              !.TimeSinceLastHandshakeSend = 0,
              !.TimeSinceTURNRefresh = 0,
              !.TURNServerAddr = FALSE,
              !.LocalCandidates = << >>,
              !.RemoteCandidates = << >>]

----------------------------------------------------------------------------
(* The network between data sockets *)

\* a datagram for (addr, port) reaches the socket bound to that port on that address
Reaches(b, sock, addr, port) ==
    /\ sock.bound
    /\ sock.port = port
    /\ \/ sock.addr = addr
       \/ sock.addr = AnyAddress /\ addr = LocalHostAddr[b]

DeliverOne(ags, m) ==
    [b \in Agents |->
        IF /\ m.sock = "data"
           /\ m.snd = "full"
           /\ Reaches(b, ags[b].Socket, m.addr, m.port)
           /\ Len(ags[b].Socket.queue) < MaxQueue
        THEN [ags[b] EXCEPT !.Socket.queue = Append(@, m.dgram)]
        ELSE ags[b]]

RECURSIVE DeliverAll(_, _)
DeliverAll(ags, out) ==
    IF out = << >> THEN ags ELSE DeliverAll(DeliverOne(ags, Head(out)), Tail(out))

----------------------------------------------------------------------------
(* The signaling adapters (FLocalFileSignaling, ICESignalingInterface.cpp) *)

Peers == {"P1", "P2"}

\* FLocalFileSignaling(SharedDirectory)
NewSignaling == [LastProcessedMessageIndex |-> 0, bIsActive |-> FALSE]

\* no function is under test
NoProbe == [fn |-> "none"]

----------------------------------------------------------------------------
(* Actions: one call of a public operation of agent a *)

\* the operation called last, on which agent, the value it returned and, for
\* ReceiveData, the datagram copied into the caller's buffer
Returned(op, a, val, data) == [data |-> data, val |-> val, op |-> op, agent |-> a]

\* the call of op on a with result r, after dt of tick time; renewed: the TURN server
\* granted an Allocate or a Refresh during the call
Step(op, a, r, data, dt, renewed) ==
    /\ agents' = DeliverAll([agents EXCEPT ![a] = r.s], r.out)
    /\ ret' = Returned(op, a, r.val, data)
    /\ outbox' = r.out
    /\ sinceRefresh' = [sinceRefresh EXCEPT ![a] =
                            IF renewed \/ ~r.s.bTURNAllocationActive THEN 0 ELSE @ + dt]
    /\ UNCHANGED others

Commit(op, a, r, data) == Step(op, a, r, data, 0, FALSE)

\* candidates the peer of a can signal once its data socket is bound
RemoteUniverse(a) ==
    {[HostCandidate(Peer(a)) EXCEPT !.Port = 7001],
     RelayCandidate(Peer(a))}

DeltaTimes == {1, 2}

DefaultStart == [snd |-> "full", create |-> TRUE, bind |-> 7001, perm |-> TRUE, chan |-> TRUE]
DefaultRefresh == [kind |-> "success", lifetime |-> NoLifetime]

\* The outcomes that can make a difference to a call in state s (the others lead
\* to the same results and are not enumerated).
StartEnvs(s) ==
    IF \/ s.ConnectionState = "Connected"
       \/ s.TotalConnectionAttempts >= MAX_TOTAL_ATTEMPTS
       \/ Len(s.LocalCandidates) = 0
       \/ Len(s.RemoteCandidates) = 0
    THEN {DefaultStart}
    ELSE LET turn == IF \/ s.DirectConnectionAttempts >= MAX_DIRECT_ATTEMPTS
                        \/ s.SelectedLocalCandidate.Type = "Relayed"
                     THEN BOOLEAN ELSE {TRUE}
         IN {[DefaultStart EXCEPT !.create = FALSE], [DefaultStart EXCEPT !.bind = 0]}
            \cup [snd : SendOutcomes, create : {TRUE}, bind : EphemeralPorts,
                  perm : turn, chan : turn]

\* the host address is found; an Allocate fails only while no allocation is active
GatherEnvs(s) ==
    [host : {TRUE},
     stun : IF s.Config.STUNServers > 0 THEN BOOLEAN ELSE {FALSE},
     turn : IF s.Config.TURNServers > 0 /\ s.Config.TURNCredentials
            THEN {o \in AllocOutcomes :
                     /\ o \notin {AllocUnresolved, AllocNoSocket}
                     /\ s.bTURNAllocationActive => o # AllocFails}
            ELSE {AllocFails}]

\* every platform call succeeds and every datagram is sent in full
GoodGatherEnvs(s) ==
    {e \in GatherEnvs(s) : /\ e.stun = (s.Config.STUNServers > 0)
                            /\ (s.Config.TURNServers > 0 => e.turn # AllocFails)}
GoodStartEnvs(s) == {DefaultStart}
GoodTickEnvs(s) == {[snd |-> "full", refresh |-> DefaultRefresh, start |-> DefaultStart]}

TickEnvs(s) ==
    [snd : IF s.ConnectionState = "PerformingHandshake" THEN SendOutcomes ELSE {"full"},
     refresh : IF s.bTURNAllocationActive THEN SettledRefreshOutcomes ELSE {DefaultRefresh},
     start : IF s.ConnectionState = "ConnectingDirect" THEN StartEnvs(s) ELSE {DefaultStart}]

\* the bound on the tick time an agent accumulates without changing state
TimeBound(s) == IF s.ConnectionState = "PerformingHandshake" THEN MaxTime ELSE MaxIdle

OpGatherCandidates(a, envs) ==
    \E env \in envs :
        LET r == GatherCandidates(a, agents[a], env)
            relayed == \E i \in 1..Len(r.s.LocalCandidates) :
                           r.s.LocalCandidates[i].Type = "Relayed"
        IN Step("GatherCandidates", a, r, NoData, 0, relayed)

OpAddRemoteCandidate(a, signalled, max) ==
    /\ Len(agents[a].RemoteCandidates) < max
    /\ \E c \in signalled :
        Commit("AddRemoteCandidate", a, Result(AddRemoteCandidate(agents[a], c), TRUE, << >>), NoData)

OpStartConnectivityChecks(a, envs) ==
    \E env \in envs :
        Commit("StartConnectivityChecks", a, StartConnectivityChecks(agents[a], env), NoData)

OpTick(a, envs) ==
    \E dt \in DeltaTimes :
        /\ agents[a].TimeSinceLastAttempt + dt <= TimeBound(agents[a])
        /\ \E env \in envs :
            LET r == Tick(agents[a], dt, env)
                refreshed == /\ \E i \in 1..Len(r.out) : r.out[i].dgram.kind = "Refresh"
                             /\ env.refresh.kind = "success"
            IN Step("Tick", a, r, NoData, dt, refreshed)

\* SendData and ReceiveData return false at once on an agent that is not connected
OpSendData(a, payloads, snds) ==
    /\ agents[a].bIsConnected
    /\ \E p \in payloads, snd \in snds :
        Commit("SendData", a, SendData(agents[a], p, snd), NoData)

OpReceiveData(a) ==
    /\ agents[a].bIsConnected
    /\ \E inbound \in (IF UsesRelay(agents[a]) THEN TurnInbound ELSE {"none"}) :
        LET r == ReceiveData(agents[a], inbound)
        IN Commit("ReceiveData", a, Result(r.s, r.val, << >>), r.out)

OpClose(a) ==
    Commit("Close", a, Result(Close(agents[a]), TRUE, << >>), NoData)

\* a datagram from anywhere arrives on the bound data socket of a
NetInject(a, datagrams) ==
    /\ agents[a].Socket.bound
    /\ Len(agents[a].Socket.queue) < MaxQueue
    /\ \E d \in datagrams :
        /\ agents' = [agents EXCEPT ![a].Socket.queue = Append(@, d)]
        /\ ret' = Returned("NetInject", a, TRUE, NoData)
        /\ outbox' = << >>
        /\ UNCHANGED <<sinceRefresh, others>>

\* no signaling adapter is initialized and no function is under test
NothingElse ==
    /\ probe = NoProbe
    /\ files = {}
    /\ peers = [p \in Peers |-> NewSignaling]
    /\ delivered = [p \in Peers |-> << >>]
    /\ now = 0

----------------------------------------------------------------------------
(* One agent with a TURN server, facing an arbitrary peer and network *)

Init ==
    /\ agents = [a \in Agents |-> NewAgent(TurnConfig)]
    /\ ret = Returned("Init", "A", TRUE, NoData)
    /\ outbox = << >>
    /\ sinceRefresh = [a \in Agents |-> 0]
    /\ NothingElse

Next ==
    \/ OpGatherCandidates("A", GatherEnvs(agents["A"]))
    \/ OpAddRemoteCandidate("A", RemoteUniverse("A"), MaxRemote)
    \/ OpStartConnectivityChecks("A", StartEnvs(agents["A"]))
    \/ OpTick("A", TickEnvs(agents["A"]))
    \/ OpSendData("A", {"ping"}, SendOutcomes)
    \/ OpReceiveData("A")
    \/ OpClose("A")
    \/ NetInject("A", {HelloRequest, HelloResponse, AppDatagram("ping")})

Spec == Init /\ [][Next]_vars

----------------------------------------------------------------------------
(* Two agents with host candidates only; each is signalled the local candidates *)
(* of the other; every platform call succeeds and every datagram sent to a     *)
(* bound address and port is delivered                                         *)

PairInit ==
    /\ agents = [a \in Agents |-> NewAgent(HostOnlyConfig)]
    /\ ret = Returned("Init", "A", TRUE, NoData)
    /\ outbox = << >>
    /\ sinceRefresh = [a \in Agents |-> 0]
    /\ NothingElse

\* GetLocalCandidates of the peer, as the signaling carries it
Signalled(a) ==
    {agents[Peer(a)].LocalCandidates[i] : i \in 1..Len(agents[Peer(a)].LocalCandidates)}

PairNext ==
    \E a \in Agents :
        \/ OpGatherCandidates(a, GoodGatherEnvs(agents[a]))
        \/ OpAddRemoteCandidate(a, Signalled(a), MaxRemote)
        \/ /\ agents[a].ConnectionState = "New"
           /\ OpStartConnectivityChecks(a, GoodStartEnvs(agents[a]))
        \/ OpTick(a, GoodTickEnvs(agents[a]))
        \/ OpSendData(a, Payloads, {"full"})
        \/ OpReceiveData(a)
        \/ OpClose(a)

PairSpec == PairInit /\ [][PairNext]_vars

----------------------------------------------------------------------------
(* The scenario of two new agents: each gathers once, is signalled the list its *)
(* peer gathered, starts the checks once both lists are exchanged, and is then  *)
(* ticked                                                                       *)

Exchanged == \A a \in Agents : Len(agents[a].RemoteCandidates) > 0

ScenarioGather(a) ==
    /\ Len(agents[a].LocalCandidates) = 0
    /\ OpGatherCandidates(a, GoodGatherEnvs(agents[a]))

ScenarioSignal(a) ==
    /\ Len(agents[a].RemoteCandidates) = 0
    /\ OpAddRemoteCandidate(a, Signalled(a), MaxRemote)

ScenarioStart(a) ==
    /\ Exchanged
    /\ agents[a].ConnectionState = "New"
    /\ OpStartConnectivityChecks(a, GoodStartEnvs(agents[a]))

ScenarioTick(a) ==
    /\ agents[a].ConnectionState # "New"
    /\ OpTick(a, GoodTickEnvs(agents[a]))

ScenarioNext ==
    \E a \in Agents :
        \/ ScenarioGather(a)
        \/ ScenarioSignal(a)
        \/ ScenarioStart(a)
        \/ ScenarioTick(a)

\* every step of the scenario that can be taken is taken: the applications gather,
\* signal and start, and the game loop ticks each agent every frame
FairPairSpec ==
    /\ PairInit
    /\ [][ScenarioNext]_vars
    /\ \A a \in Agents :
          /\ WF_vars(ScenarioGather(a))
          /\ WF_vars(ScenarioSignal(a))
          /\ WF_vars(ScenarioStart(a))
          /\ WF_vars(ScenarioTick(a))

----------------------------------------------------------------------------
(* One agent that is started once and from then on only ticked, while no *)
(* HELLO ever arrives on its data socket                                 *)

TickOnlyNext ==
    \/ /\ agents["A"].ConnectionState = "New"
       /\ Len(agents["A"].LocalCandidates) = 0
       /\ OpGatherCandidates("A", GatherEnvs(agents["A"]))
    \/ /\ agents["A"].ConnectionState = "New"
       /\ OpAddRemoteCandidate("A", RemoteUniverse("A"), MaxRemote)
    \/ /\ agents["A"].ConnectionState = "New"
       /\ OpStartConnectivityChecks("A", StartEnvs(agents["A"]))
    \/ /\ agents["A"].ConnectionState # "New"
       /\ OpTick("A", TickEnvs(agents["A"]))
    \/ NetInject("A", {AppDatagram(p) : p \in Payloads})

TickOnlySpec == Init /\ [][TickOnlyNext]_vars

----------------------------------------------------------------------------
(* One agent with STUN and TURN servers that is signalled up to MaxSignalled *)
(* candidates, among them candidates of equal priority, and started          *)

SelectInit ==
    /\ agents = [a \in Agents |-> NewAgent(FullConfig)]
    /\ ret = Returned("Init", "A", TRUE, NoData)
    /\ outbox = << >>
    /\ sinceRefresh = [a \in Agents |-> 0]
    /\ NothingElse

\* what a peer with two interfaces, a reflexive address and two relays can signal
SignalledUniverse(a) ==
    {[HostCandidate(Peer(a)) EXCEPT !.Port = 7001],
     [HostCandidate(Peer(a)) EXCEPT !.Address = "10.0.0.3", !.Port = 7001],
     SrflxCandidate(Peer(a)),
     RelayCandidate(Peer(a)),
     [RelayCandidate(Peer(a)) EXCEPT !.Address = "9.9.9.3"]}

SelectNext ==
    \/ OpGatherCandidates("A", GatherEnvs(agents["A"]))
    \/ OpAddRemoteCandidate("A", SignalledUniverse("A"), MaxSignalled)
    \/ OpStartConnectivityChecks("A", GoodStartEnvs(agents["A"]))
    \/ OpClose("A")

SelectSpec == SelectInit /\ [][SelectNext]_vars

----------------------------------------------------------------------------
(* CalculatePriority on sampled arguments, and one agent that gathers with STUN *)
(* and TURN servers                                                            *)

LocalPreferences == {0, 1, 255, 256, 65534, 65535}
ComponentIds == {1, 2, 128, 255, 256}

PriorityInit ==
    /\ agents = [a \in Agents |-> NewAgent(FullConfig)]
    /\ ret = Returned("Init", "A", TRUE, NoData)
    /\ outbox = << >>
    /\ sinceRefresh = [a \in Agents |-> 0]
    /\ probe \in {[Type |-> T, LocalPreference |-> LP, ComponentId |-> CID,
                   fn |-> "CalculatePriority", done |-> FALSE, result |-> 0] :
                      T \in CandidateTypes, LP \in LocalPreferences, CID \in ComponentIds}
    /\ files = {}
    /\ peers = [p \in Peers |-> NewSignaling]
    /\ delivered = [p \in Peers |-> << >>]
    /\ now = 0

ApplyCalculatePriority ==
    /\ probe.fn = "CalculatePriority"
    /\ ~probe.done
    /\ probe' = [probe EXCEPT
                    !.done = TRUE,
                    !.result = CalculatePriority(probe.Type, probe.LocalPreference,
                                                 probe.ComponentId)]
    /\ UNCHANGED <<agents, ret, outbox, sinceRefresh, files, peers, delivered, now>>

PriorityNext ==
    \/ ApplyCalculatePriority
    \/ OpGatherCandidates("A", GatherEnvs(agents["A"]))

PrioritySpec == PriorityInit /\ [][PriorityNext]_vars

----------------------------------------------------------------------------
(* One agent that gathers against a TURN server whose replies to the next        *)
(* Allocate requests are held in probe                                           *)

ErrorCodes == {401, 438}
ReportedLifetimes == {NoLifetime, 0, 5}

AllocReplies ==
    {AllocReply(k, 0, FALSE, FALSE, FALSE, NoLifetime) :
        k \in {"sendfail", "timeout", "recvfail", "malformed"}}
    \cup {AllocReply("success", 0, FALSE, FALSE, relay, l) :
            relay \in BOOLEAN, l \in ReportedLifetimes}
    \cup {AllocReply("error", code, realm, nonce, FALSE, NoLifetime) :
            code \in ErrorCodes, realm \in BOOLEAN, nonce \in BOOLEAN}

Unauthorized == AllocReply("error", 401, TRUE, TRUE, FALSE, NoLifetime)

\* the replies to a third and a fourth request, were they sent
LaterReplies == {<<AllocTimeout>>, <<Unauthorized, AllocSuccess(5)>>}

AllocEnvs ==
    {AllocUnresolved, AllocNoSocket}
    \cup {AllocEnv(TRUE, TRUE, <<r1, r2>> \o later) :
            r1 \in AllocReplies, r2 \in AllocReplies, later \in LaterReplies}

TurnServer(env) == [env |-> env, fn |-> "TurnServer"]

AllocInit ==
    /\ agents = [a \in Agents |-> NewAgent(FullConfig)]
    /\ ret = Returned("Init", "A", TRUE, NoData)
    /\ outbox = << >>
    /\ sinceRefresh = [a \in Agents |-> 0]
    /\ probe \in {TurnServer(env) : env \in AllocEnvs}
    /\ files = {}
    /\ peers = [p \in Peers |-> NewSignaling]
    /\ delivered = [p \in Peers |-> << >>]
    /\ now = 0

\* the platform and the server change their behaviour between two calls
TurnServerChanges ==
    /\ probe.fn = "TurnServer"
    /\ \E env \in AllocEnvs : probe' = TurnServer(env)
    /\ ret' = Returned("TurnServerChanges", "A", TRUE, NoData)
    /\ outbox' = << >>
    /\ UNCHANGED <<agents, sinceRefresh, files, peers, delivered, now>>

AllocNext ==
    \/ OpGatherCandidates("A", {[host |-> TRUE, stun |-> FALSE, turn |-> probe.env]})
    \/ OpClose("A")
    \/ TurnServerChanges

AllocSpec == AllocInit /\ [][AllocNext]_vars

----------------------------------------------------------------------------
(* One agent that allocates on a TURN server and is ticked while it waits in     *)
(* state New                                                                     *)

MaxRefreshTime == 40
RefreshDeltaTimes == {1, 3, 30}

RefreshInit == Init

RefreshTick ==
    \E dt \in RefreshDeltaTimes :
        /\ agents["A"].TimeSinceLastAttempt + dt <= MaxRefreshTime
        /\ \E outcome \in RefreshOutcomes :
            LET env == [snd |-> "full", refresh |-> outcome, start |-> DefaultStart]
                r == Tick(agents["A"], dt, env)
                refreshed == /\ \E i \in 1..Len(r.out) : r.out[i].dgram.kind = "Refresh"
                             /\ outcome.kind = "success"
            IN Step("Tick", "A", r, NoData, dt, refreshed)

RefreshNext ==
    \/ OpGatherCandidates("A", [host : {TRUE}, stun : {FALSE},
                                turn : {AllocFails} \cup {AllocSucceeds(l) : l \in LifetimeReplies}])
    \/ RefreshTick
    \/ OpClose("A")

RefreshSpec == RefreshInit /\ [][RefreshNext]_vars

----------------------------------------------------------------------------
(* The textual form of a candidate. A string is the sequence of its characters. *)

DigitChars == <<"0", "1", "2", "3", "4", "5", "6", "7", "8", "9">>
UpperCase == <<"A", "B", "C", "D", "E", "F", "G", "H", "I", "J", "K", "L", "M", "N", "O", "P", "Q", "R", "S", "T", "U", "V", "W", "X", "Y", "Z">>
LowerCase == <<"a", "b", "c", "d", "e", "f", "g", "h", "i", "j", "k", "l", "m", "n", "o", "p", "q", "r", "s", "t", "u", "v", "w", "x", "y", "z">>

ToLower(ch) ==
    IF \E i \in 1..Len(UpperCase) : UpperCase[i] = ch
    THEN LowerCase[CHOOSE i \in 1..Len(UpperCase) : UpperCase[i] = ch]
    ELSE ch

\* FString == and StartsWith compare without regard to case
EqualsIgnoreCase(a, b) ==
    /\ Len(a) = Len(b)
    /\ \A i \in 1..Len(a) : ToLower(a[i]) = ToLower(b[i])

StartsWith(str, prefix) ==
    /\ Len(str) >= Len(prefix)
    /\ EqualsIgnoreCase(SubSeq(str, 1, Len(prefix)), prefix)

RightChop(str, n) == SubSeq(str, n + 1, Len(str))

\* %d of a non-negative number
RECURSIVE DecimalDigits(_)
DecimalDigits(n) ==
    IF n < 10 THEN <<DigitChars[n + 1]>>
    ELSE DecimalDigits(n \div 10) \o <<DigitChars[(n % 10) + 1]>>

\* %d
FormatInt(n) == IF n < 0 THEN <<"-">> \o DecimalDigits(0 - n) ELSE DecimalDigits(n)

IsDigit(ch) == \E i \in 1..10 : DigitChars[i] = ch
DigitValue(ch) == (CHOOSE i \in 1..10 : DigitChars[i] = ch) - 1

\* the value of the leading digits of str, after acc
RECURSIVE LeadingDigits(_, _)
LeadingDigits(str, acc) ==
    IF str = << >> \/ ~IsDigit(Head(str)) THEN acc
    ELSE LeadingDigits(Tail(str), acc * 10 + DigitValue(Head(str)))

\* FCString::Atoi: an optional sign, then digits up to the first other character
Atoi(str) ==
    IF str # << >> /\ Head(str) = "-" THEN 0 - LeadingDigits(Tail(str), 0)
    ELSE IF str # << >> /\ Head(str) = "+" THEN LeadingDigits(Tail(str), 0)
    ELSE LeadingDigits(str, 0)

\* ParseIntoArray(Parts, " "): the non-empty pieces between the spaces; part is the
\* piece being read, parts the pieces read so far
RECURSIVE ParseIntoArray(_, _, _)
ParseIntoArray(str, part, parts) ==
    LET closed == IF part = << >> THEN parts ELSE Append(parts, part)
    IN IF str = << >> THEN closed
       ELSE IF Head(str) = " " THEN ParseIntoArray(Tail(str), << >>, closed)
       ELSE ParseIntoArray(Tail(str), Append(part, Head(str)), parts)

CandidatePrefix == <<"c", "a", "n", "d", "i", "d", "a", "t", "e", ":">>
Typ == <<"t", "y", "p">>

TypeName(Type) ==
    IF Type = "Host" THEN <<"h", "o", "s", "t">>
    ELSE IF Type = "ServerReflexive" THEN <<"s", "r", "f", "l", "x">>
    ELSE <<"r", "e", "l", "a", "y">>

\* FICECandidate with every field; a default-constructed one
FICECandidate ==
    [Type |-> "Host", ComponentId |-> 0, Foundation |-> << >>, Transport |-> <<"U", "D", "P">>,
     Priority |-> 0, Address |-> << >>, Port |-> 0, RelatedAddress |-> << >>,
     RelatedPort |-> 0]

\* FICECandidate::ToString
FICECandidate_ToString(c) ==
    CandidatePrefix \o c.Foundation \o <<" ">> \o FormatInt(c.ComponentId) \o <<" ">>
        \o c.Transport \o <<" ">> \o FormatInt(c.Priority) \o <<" ">> \o c.Address
        \o <<" ">> \o FormatInt(c.Port) \o <<" ">> \o Typ \o <<" ">> \o TypeName(c.Type)

\* FromString that removes every leading "candidate:"
RECURSIVE FromString_StripAll(_)
FromString_StripAll(CandidateString) ==
    LET Parts == ParseIntoArray(CandidateString, << >>, << >>)
        Type == IF ~EqualsIgnoreCase(Parts[7], Typ) THEN "Host"
                ELSE IF EqualsIgnoreCase(Parts[8], TypeName("Host")) THEN "Host"
                ELSE IF EqualsIgnoreCase(Parts[8], TypeName("ServerReflexive"))
                THEN "ServerReflexive"
                ELSE IF EqualsIgnoreCase(Parts[8], TypeName("Relayed")) THEN "Relayed"
                ELSE "Host"
    IN IF StartsWith(CandidateString, CandidatePrefix)
       THEN FromString_StripAll(RightChop(CandidateString, 10))
       ELSE IF Len(Parts) >= 8
       THEN [FICECandidate EXCEPT !.Type = Type,
                                  !.ComponentId = Atoi(Parts[2]),
                                  !.Foundation = Parts[1],
                                  !.Transport = Parts[3],
                                  !.Priority = Atoi(Parts[4]),
                                  !.Address = Parts[5],
                                  !.Port = Atoi(Parts[6])]
       ELSE FICECandidate

FromString(CandidateString) ==
    LET ParseString == IF StartsWith(CandidateString, CandidatePrefix)
                       THEN RightChop(CandidateString, 10)
                       ELSE CandidateString
        Parts == ParseIntoArray(ParseString, << >>, << >>)
        Type == IF ~EqualsIgnoreCase(Parts[7], Typ) THEN "Host"
                ELSE IF EqualsIgnoreCase(Parts[8], TypeName("Host")) THEN "Host"
                ELSE IF EqualsIgnoreCase(Parts[8], TypeName("ServerReflexive"))
                THEN "ServerReflexive"
                ELSE IF EqualsIgnoreCase(Parts[8], TypeName("Relayed")) THEN "Relayed"
                ELSE "Host"
    IN IF Len(Parts) >= 8
       THEN [FICECandidate EXCEPT !.Type = Type,
                                  !.ComponentId = Atoi(Parts[2]),
                                  !.Foundation = Parts[1],
                                  !.Transport = Parts[3],
                                  !.Priority = Atoi(Parts[4]),
                                  !.Address = Parts[5],
                                  !.Port = Atoi(Parts[6])]
       ELSE FICECandidate

----------------------------------------------------------------------------
(* ToString and FromString on sampled candidates *)

SampleNames == {<<"1">>, <<"a", "b">>, << >>, <<"1", " ", "2">>}
SampleTransports == {<<"U", "D", "P">>, <<"t", "c", "p">>}
SampleAddresses == {<<"1", ".", "2">>, <<":", ":", "1">>}
SampleComponentIds == {0, 1, 256}
SamplePriorities == {0 - 1, 0, 2130706431}
SamplePorts == {0, 7001, 65535}

SampleCandidates ==
    [Type : CandidateTypes, ComponentId : SampleComponentIds, Foundation : SampleNames,
     Transport : SampleTransports, Priority : SamplePriorities, Address : SampleAddresses,
     Port : SamplePorts, RelatedAddress : {<< >>} \cup SampleAddresses,
     RelatedPort : {0, 7001}]

CandInit ==
    /\ agents = [a \in Agents |-> NewAgent(FullConfig)]
    /\ ret = Returned("Init", "A", TRUE, NoData)
    /\ outbox = << >>
    /\ sinceRefresh = [a \in Agents |-> 0]
    /\ probe \in {[fn |-> "Candidate", c |-> c, text |-> << >>, parsed |-> FICECandidate,
                   stage |-> "new"] : c \in SampleCandidates}
    /\ files = {}
    /\ peers = [p \in Peers |-> NewSignaling]
    /\ delivered = [p \in Peers |-> << >>]
    /\ now = 0

ApplyToString ==
    /\ probe.fn = "Candidate"
    /\ probe.stage = "new"
    /\ probe' = [probe EXCEPT !.text = FICECandidate_ToString(probe.c), !.stage = "text"]
    /\ UNCHANGED <<agents, ret, outbox, sinceRefresh, files, peers, delivered, now>>

ApplyFromString ==
    /\ probe.fn = "Candidate"
    /\ probe.stage = "text"
    /\ probe' = [probe EXCEPT !.parsed = FromString(probe.text), !.stage = "parsed"]
    /\ UNCHANGED <<agents, ret, outbox, sinceRefresh, files, peers, delivered, now>>

\* FromString of "candidate:" followed by the text
ApplyFromStringPrefixed ==
    /\ probe.fn = "Candidate"
    /\ probe.stage = "text"
    /\ probe' = [probe EXCEPT !.parsed = FromString(CandidatePrefix \o probe.text),
                              !.stage = "prefixed"]
    /\ UNCHANGED <<agents, ret, outbox, sinceRefresh, files, peers, delivered, now>>

CandNext ==
    \/ ApplyToString
    \/ ApplyFromString
    \/ ApplyFromStringPrefixed

CandSpec == CandInit /\ [][CandNext]_vars

----------------------------------------------------------------------------
(* FLocalFileSignaling: the adapters of two peers on one shared directory *)

MaxAgeSeconds == 300
MaxSent == 2
MaxClockSteps == 1
ClockSteps == {1, 301}

\* the values FGuid::NewGuid can take in a file name, in the order of their strings
Guids == 1..2
ReceiverIds == {""} \cup Peers

\* the place of a peer id among the peer ids sorted as strings
PeerRank(p) == IF p = "P1" THEN 1 ELSE 2

\* signal_<timestamp>_<peerId>_<guid>.json
GenerateMessageFileName(p, guid) == [guid |-> guid, ts |-> now, peer |-> p]

\* the order of Files.Sort() on two names (the timestamps have the same number of
\* digits)
NameBefore(n1, n2) ==
    \/ n1.ts < n2.ts
    \/ n1.ts = n2.ts /\ PeerRank(n1.peer) < PeerRank(n2.peer)
    \/ n1.ts = n2.ts /\ n1.peer = n2.peer /\ n1.guid < n2.guid

\* FindFiles and Files.Sort()
RECURSIVE SortedFiles(_)
SortedFiles(fs) ==
    IF fs = {} THEN << >>
    ELSE LET first == CHOOSE f \in fs : \A g \in fs \ {f} : NameBefore(f.name, g.name)
         IN <<first>> \o SortedFiles(fs \ {first})

\* ReadPendingMessages: the messages of the files from LastProcessedMessageIndex on
ReadPendingMessages(s, fs) ==
    LET Files == SortedFiles(fs)
    IN [s |-> [s EXCEPT !.LastProcessedMessageIndex = Len(Files)],
        val |-> [i \in 1..(IF Len(Files) > s.LastProcessedMessageIndex
                           THEN Len(Files) - s.LastProcessedMessageIndex ELSE 0) |->
                    Files[s.LastProcessedMessageIndex + i].msg]]

CleanupOldMessages(fs) == {f \in fs : ~(now - f.mtime > MaxAgeSeconds)}

\* the messages ProcessSignals hands to OnSignalReceived, without the test of the
\* receiver
Broadcast_NoReceiverFilter(PeerId, Messages) ==
    SelectSeq(Messages, LAMBDA Message : ~(Message.SenderId = PeerId))

\* the messages ProcessSignals hands to OnSignalReceived
Broadcast(PeerId, Messages) ==
    SelectSeq(Messages, LAMBDA Message :
        /\ ~(Message.SenderId = PeerId)
        /\ ~(Message.ReceiverId # "" /\ Message.ReceiverId # PeerId))

SigInit ==
    /\ agents = [a \in Agents |-> NewAgent(FullConfig)]
    /\ ret = Returned("Init", "A", TRUE, NoData)
    /\ outbox = << >>
    /\ sinceRefresh = [a \in Agents |-> 0]
    /\ probe = [fn |-> "Signaling", sent |-> [p \in Peers |-> 0], steps |-> 0]
    /\ files = {}
    /\ peers = [p \in Peers |-> NewSignaling]
    /\ delivered = [p \in Peers |-> << >>]
    /\ now = 0

Initialize(p) ==
    /\ ~peers[p].bIsActive
    /\ peers' = [peers EXCEPT ![p].bIsActive = TRUE]
    /\ ret' = Returned("Initialize", p, TRUE, NoData)
    /\ UNCHANGED <<agents, outbox, sinceRefresh, probe, files, delivered, now>>

Shutdown(p) ==
    /\ peers[p].bIsActive
    /\ peers' = [peers EXCEPT ![p].bIsActive = FALSE]
    /\ ret' = Returned("Shutdown", p, TRUE, NoData)
    /\ UNCHANGED <<agents, outbox, sinceRefresh, probe, files, delivered, now>>

\* SendSignal of the next message of p, to ReceiverId; saved: SaveStringToFile
\* succeeds
SendSignal(p) ==
    /\ probe.sent["P1"] + probe.sent["P2"] < MaxSent
    /\ \E ReceiverId \in ReceiverIds, guid \in Guids, saved \in BOOLEAN :
        LET Message == [SenderId |-> p, ReceiverId |-> ReceiverId,
                        body |-> probe.sent[p] + 1]
            FileName == GenerateMessageFileName(p, guid)
            written == peers[p].bIsActive /\ saved
        IN /\ \A f \in files : f.name # FileName
           /\ files' = IF written
                       THEN files \cup {[name |-> FileName, msg |-> Message, mtime |-> now]}
                       ELSE files
           /\ probe' = [probe EXCEPT !.sent[p] = IF written THEN @ + 1 ELSE @]
           /\ ret' = Returned("SendSignal", p, written, NoData)
           /\ UNCHANGED <<agents, outbox, sinceRefresh, peers, delivered, now>>

ProcessSignals(p) ==
    /\ ret' = Returned("ProcessSignals", p, TRUE, NoData)
    /\ IF ~peers[p].bIsActive
       THEN UNCHANGED <<peers, delivered, files>>
       ELSE LET read == ReadPendingMessages(peers[p], files)
            IN /\ peers' = [peers EXCEPT ![p] = read.s]
               /\ delivered' = [delivered EXCEPT ![p] = @ \o Broadcast(p, read.val)]
               /\ files' = CleanupOldMessages(files)
    /\ UNCHANGED <<agents, outbox, sinceRefresh, probe, now>>

\* FDateTime::UtcNow() moves on
ClockAdvances ==
    /\ probe.fn = "Signaling"
    /\ probe.steps < MaxClockSteps
    /\ \E d \in ClockSteps : now' = now + d
    /\ probe' = [probe EXCEPT !.steps = @ + 1]
    /\ ret' = Returned("ClockAdvances", "A", TRUE, NoData)
    /\ UNCHANGED <<agents, outbox, sinceRefresh, files, peers, delivered>>

SigNext ==
    \/ \E p \in Peers : Initialize(p)
    \/ \E p \in Peers : Shutdown(p)
    \/ \E p \in Peers : SendSignal(p)
    \/ \E p \in Peers : ProcessSignals(p)
    \/ ClockAdvances

SigSpec == SigInit /\ [][SigNext]_vars

----------------------------------------------------------------------------
(* The STUN and TURN requests as they are laid out in the request buffer *)

StunHeaderSize == 20
MESSAGE_INTEGRITY_ATTR_SIZE == 24
HMAC_SHA1_SIZE == 20
\* TArray<uint8> Request; Request.SetNum(512)
RequestBufferSize == 512

\* an attribute: its type, the offset of its 4-byte header, the length of its value
Attribute(AttrType, AttrOffset, AttrLength) ==
    [AttrType |-> AttrType, AttrOffset |-> AttrOffset, AttrLength |-> AttrLength]

\* the buffer after the 20-byte header: the attributes written, the write offset,
\* and the writes of the length field and the HMAC steps in the order they happen
NewRequest(MessageType) ==
    [MessageType |-> MessageType, Attributes |-> << >>, Offset |-> StunHeaderSize,
     Events |-> << >>]

Event(event, arg) == [event |-> event, arg |-> arg]

\* while (Offset % 4 != 0) Request[Offset++] = 0x00
Pad4(n) == IF n % 4 = 0 THEN n ELSE n + (4 - (n % 4))

\* an attribute of fixed size, written byte by byte without padding
AddFixed(r, t, n) ==
    [r EXCEPT !.Attributes = Append(@, Attribute(t, r.Offset, n)),
              !.Offset = @ + 4 + n]

\* USERNAME, REALM, NONCE: header, the characters, then the padding loop
AddString(r, t, n) ==
    [r EXCEPT !.Attributes = Append(@, Attribute(t, r.Offset, n)),
              !.Offset = Pad4(@ + 4 + n)]

\* Request[LengthOffset], Request[LengthOffset + 1] = v
SetLength(r, v) == [r EXCEPT !.Events = Append(@, Event("SetLength", v))]

\* PerformSTUNRequest: the 20-byte Binding request, MessageLength 0
BuildBindingRequest == SetLength(NewRequest("Binding"), 0)

\* PerformTURNAllocationRequest up to SendTo; the lengths are those of Username,
\* Realm and Nonce (an empty string has length 0)
BuildAllocateRequest(UsernameLen, RealmLen, NonceLen) ==
    LET base == AddString(AddFixed(NewRequest("Allocate"), "REQUESTED-TRANSPORT", 4),
                          "USERNAME", UsernameLen)
        nonce == AddString(AddString(base, "REALM", RealmLen), "NONCE", NonceLen)
        MessageIntegrityOffset == nonce.Offset
        integrity == AddFixed(nonce, "MESSAGE-INTEGRITY", HMAC_SHA1_SIZE)
        MessageLengthForIntegrity ==
            MessageIntegrityOffset - StunHeaderSize + MESSAGE_INTEGRITY_ATTR_SIZE
    IN IF RealmLen > 0 /\ NonceLen > 0
       THEN [integrity EXCEPT !.Events =
                <<Event("SetLength", MessageLengthForIntegrity),
                  Event("HMAC", MessageIntegrityOffset),
                  Event("CopyHMAC", MessageIntegrityOffset + 4)>>]
       ELSE SetLength(base, base.Offset - StunHeaderSize)

BuildCreatePermissionRequest(UsernameLen) ==
    LET r == AddString(AddFixed(NewRequest("CreatePermission"), "XOR-PEER-ADDRESS", 8),
                       "USERNAME", UsernameLen)
    IN SetLength(r, r.Offset - StunHeaderSize)

BuildChannelBindRequest(UsernameLen) ==
    LET r == AddString(AddFixed(AddFixed(NewRequest("ChannelBind"), "CHANNEL-NUMBER", 4),
                                "XOR-PEER-ADDRESS", 8),
                       "USERNAME", UsernameLen)
    IN SetLength(r, r.Offset - StunHeaderSize)

BuildRefreshRequest(UsernameLen) ==
    LET r == AddString(AddFixed(NewRequest("Refresh"), "LIFETIME", 4),
                       "USERNAME", UsernameLen)
    IN SetLength(r, r.Offset - StunHeaderSize)

\* the MessageLength field of the header as it is sent: the last value written
HeaderLength(r) ==
    LET sets == SelectSeq(r.Events, LAMBDA e : e.event = "SetLength")
    IN sets[Len(sets)].arg

AttrTypes(r) == {r.Attributes[i].AttrType : i \in 1..Len(r.Attributes)}

\* A request that fits the buffer is handed to SendTo. One that does not was written
\* past the end of the array: the range test of TArray stops the program, or, in a
\* build without it, memory after the buffer is overwritten.
SendResults(r) ==
    IF r.Offset <= RequestBufferSize THEN {"sent"} ELSE {"crash", "overrun"}

\* lengths of Config.TURNUsername, and of the REALM and NONCE of a 401 response
UsernameLens == {1, 3, 4, 6, 470}
RealmLens == {1, 7, 12}
NonceLens == {1, 8, 460}

RequestInit ==
    /\ agents = [a \in Agents |-> NewAgent(TurnConfig)]
    /\ ret = Returned("Init", "A", TRUE, NoData)
    /\ outbox = << >>
    /\ sinceRefresh = [a \in Agents |-> 0]
    /\ probe \in {[fn |-> "Request", UsernameLen |-> u, RealmLen |-> r, NonceLen |-> n,
                   built |-> NewRequest("none"), sendResult |-> "none"] :
                      u \in UsernameLens, r \in RealmLens, n \in NonceLens}
    /\ files = {}
    /\ peers = [p \in Peers |-> NewSignaling]
    /\ delivered = [p \in Peers |-> << >>]
    /\ now = 0

Builds(r) ==
    /\ \E o \in SendResults(r) : probe' = [probe EXCEPT !.built = r, !.sendResult = o]
    /\ UNCHANGED <<agents, ret, outbox, sinceRefresh, files, peers, delivered, now>>

RequestBinding == Builds(BuildBindingRequest)
\* the first Allocate has no realm and no nonce, the retry has those of the 401
RequestAllocate == Builds(BuildAllocateRequest(probe.UsernameLen, 0, 0))
RequestAllocateRetry ==
    Builds(BuildAllocateRequest(probe.UsernameLen, probe.RealmLen, probe.NonceLen))
RequestCreatePermission == Builds(BuildCreatePermissionRequest(probe.UsernameLen))
RequestChannelBind == Builds(BuildChannelBindRequest(probe.UsernameLen))
RequestRefresh == Builds(BuildRefreshRequest(probe.UsernameLen))

RequestNext ==
    \/ RequestBinding
    \/ RequestAllocate
    \/ RequestAllocateRetry
    \/ RequestCreatePermission
    \/ RequestChannelBind
    \/ RequestRefresh

RequestSpec == RequestInit /\ [][RequestNext]_vars

----------------------------------------------------------------------------
(* One agent behind a TURN relay; probe records whether a ChannelBind request  *)
(* was answered with success since the TURN socket of the agent was opened     *)

RelayInit ==
    /\ agents = [a \in Agents |-> NewAgent(TurnConfig)]
    /\ ret = Returned("Init", "A", TRUE, NoData)
    /\ outbox = << >>
    /\ sinceRefresh = [a \in Agents |-> 0]
    /\ probe = [fn |-> "Relay", channelBound |-> FALSE]
    /\ files = {}
    /\ peers = [p \in Peers |-> NewSignaling]
    /\ delivered = [p \in Peers |-> << >>]
    /\ now = 0

\* the call of op on a with result r, after which the channel is bound or not
RelayStep(op, a, r, isBound) ==
    /\ agents' = DeliverAll([agents EXCEPT ![a] = r.s], r.out)
    /\ ret' = Returned(op, a, r.val, NoData)
    /\ outbox' = r.out
    /\ sinceRefresh' = [sinceRefresh EXCEPT ![a] =
                            IF op = "GatherCandidates" \/ ~r.s.bTURNAllocationActive
                            THEN 0 ELSE @]
    /\ probe' = [probe EXCEPT !.channelBound = isBound]
    /\ UNCHANGED <<files, peers, delivered, now>>

\* PerformTURNAllocation opens a new TURN socket: whatever was bound is gone
RelayGatherCandidates(a) ==
    \E env \in GoodGatherEnvs(agents[a]) :
        RelayStep("GatherCandidates", a, GatherCandidates(a, agents[a], env), FALSE)

\* the channel is bound when the ChannelBind request is answered with success
RelayStartConnectivityChecks(a) ==
    \E env \in StartEnvs(agents[a]) :
        LET r == StartConnectivityChecks(agents[a], env)
            requested == \E i \in 1..Len(r.out) : r.out[i].dgram.kind = "ChannelBind"
        IN RelayStep("StartConnectivityChecks", a, r,
                     probe.channelBound \/ (requested /\ env.chan))

\* Close destroys the TURN socket
RelayClose(a) ==
    RelayStep("Close", a, Result(Close(agents[a]), TRUE, << >>), FALSE)

RelayNext ==
    \/ RelayGatherCandidates("A")
    \/ OpAddRemoteCandidate("A", {RelayCandidate("B")}, MaxRemote)
    \/ RelayStartConnectivityChecks("A")
    \/ OpTick("A", GoodTickEnvs(agents["A"]))
    \/ OpSendData("A", {"ping"}, SendOutcomes)
    \/ OpReceiveData("A")
    \/ RelayClose("A")
    \/ NetInject("A", {HelloRequest, HelloResponse})

RelaySpec == RelayInit /\ [][RelayNext]_vars

----------------------------------------------------------------------------
(* An agent that is closed after a session, next to a newly constructed agent  *)
(* with the same configuration: agents["A"] is the closed one, agents["B"] the *)
(* new one under the name and addresses of A. After the Close both are given   *)
(* the same calls with the same platform, server and network behaviour; probe  *)
(* holds what the call returned and sent on the new agent.                     *)

TwinInit ==
    /\ agents = [a \in Agents |-> NewAgent(TurnConfig)]
    /\ ret = Returned("Init", "A", TRUE, NoData)
    /\ outbox = << >>
    /\ sinceRefresh = [a \in Agents |-> 0]
    /\ probe = [fn |-> "Twin", twinPhase |-> "session", twinVal |-> TRUE, twinOut |-> << >>]
    /\ files = {}
    /\ peers = [p \in Peers |-> NewSignaling]
    /\ delivered = [p \in Peers |-> << >>]
    /\ now = 0

\* the session of A before it is closed
SessionCall ==
    /\ probe.twinPhase = "session"
    /\ \/ OpGatherCandidates("A", GoodGatherEnvs(agents["A"]))
       \/ OpAddRemoteCandidate("A", RemoteUniverse("A"), MaxRemote)
       \/ OpStartConnectivityChecks("A", GoodStartEnvs(agents["A"]))
       \/ OpTick("A", GoodTickEnvs(agents["A"]))
       \/ NetInject("A", {HelloResponse})

SessionClose ==
    /\ probe.twinPhase = "session"
    /\ agents' = [agents EXCEPT !["A"] = Close(@)]
    /\ ret' = Returned("Close", "A", TRUE, NoData)
    /\ outbox' = << >>
    /\ probe' = [probe EXCEPT !.twinPhase = "twin"]
    /\ UNCHANGED <<sinceRefresh, files, peers, delivered, now>>

\* the same call on both agents: closed is its result on A, new its result on B
TwinStep(op, closed, new) ==
    /\ probe.twinPhase = "twin"
    /\ agents' = [agents EXCEPT !["A"] = closed.s, !["B"] = new.s]
    /\ ret' = Returned(op, "A", closed.val, NoData)
    /\ outbox' = closed.out
    /\ probe' = [probe EXCEPT !.twinVal = new.val, !.twinOut = new.out]
    /\ UNCHANGED <<sinceRefresh, files, peers, delivered, now>>

TwinGatherCandidates ==
    \E env \in GoodGatherEnvs(agents["A"]) :
        TwinStep("GatherCandidates", GatherCandidates("A", agents["A"], env),
                                     GatherCandidates("A", agents["B"], env))

TwinAddRemoteCandidate ==
    /\ Len(agents["A"].RemoteCandidates) < MaxRemote
    /\ \E c \in RemoteUniverse("A") :
        TwinStep("AddRemoteCandidate",
                 Result(AddRemoteCandidate(agents["A"], c), TRUE, << >>),
                 Result(AddRemoteCandidate(agents["B"], c), TRUE, << >>))

TwinStartConnectivityChecks ==
    \E env \in GoodStartEnvs(agents["A"]) :
        TwinStep("StartConnectivityChecks", StartConnectivityChecks(agents["A"], env),
                                            StartConnectivityChecks(agents["B"], env))

TwinTick ==
    \E dt \in DeltaTimes :
        /\ agents["A"].TimeSinceLastAttempt + dt <= TimeBound(agents["A"])
        /\ agents["B"].TimeSinceLastAttempt + dt <= TimeBound(agents["B"])
        /\ \E env \in GoodTickEnvs(agents["A"]) :
            TwinStep("Tick", Tick(agents["A"], dt, env), Tick(agents["B"], dt, env))

TwinClose ==
    TwinStep("Close", Result(Close(agents["A"]), TRUE, << >>),
                      Result(Close(agents["B"]), TRUE, << >>))

\* the same datagram arrives on the data socket of each agent that has one
Arrives(s, d) ==
    IF s.Socket.bound /\ Len(s.Socket.queue) < MaxQueue
    THEN [s EXCEPT !.Socket.queue = Append(@, d)]
    ELSE s

TwinNetInject ==
    /\ agents["A"].Socket.bound \/ agents["B"].Socket.bound
    /\ \E d \in {HelloResponse} :
        /\ Arrives(agents["A"], d) # agents["A"] \/ Arrives(agents["B"], d) # agents["B"]
        /\ TwinStep("NetInject", Result(Arrives(agents["A"], d), TRUE, << >>),
                                 Result(Arrives(agents["B"], d), TRUE, << >>))

TwinNext ==
    \/ SessionCall
    \/ SessionClose
    \/ TwinGatherCandidates
    \/ TwinAddRemoteCandidate
    \/ TwinStartConnectivityChecks
    \/ TwinTick
    \/ TwinClose
    \/ TwinNetInject

TwinSpec == TwinInit /\ [][TwinNext]_vars

----------------------------------------------------------------------------
(* The session that owns agent A: it is subscribed to the state of the agent,   *)
(* hands it the candidates of every signal it receives and starts the checks on *)
(* an Offer or an Answer; datagrams arrive on the data socket from the selected *)
(* remote candidate and from another sender                                     *)

MaxSessionRemote == 2   \* remote candidates the signals bring at most

RECURSIVE AddRemoteCandidates(_, _)
AddRemoteCandidates(s, Candidates) ==
    IF Candidates = << >> THEN s
    ELSE AddRemoteCandidates(AddRemoteCandidate(s, Head(Candidates)), Tail(Candidates))

\* FOnlineSessionICE::OnSignalReceived with a valid agent; the value is that of
\* StartConnectivityChecks where the handler calls it
OnSignalReceived(s, Type, Candidates, env) ==
    LET s1 == AddRemoteCandidates(s, Candidates)
    IN IF /\ Type \in {"Offer", "Answer"}
          /\ Len(s1.LocalCandidates) > 0
          /\ Len(Candidates) > 0
       THEN StartConnectivityChecks(s1, env)
       ELSE Result(s1, TRUE, << >>)

SignalTypes == {"Offer", "Answer", "Candidate"}

\* the candidate lists a signal of the peer carries
SignalledLists(a) == {<< >>, <<[HostCandidate(Peer(a)) EXCEPT !.Port = 7001]>>}

\* FSocket::RecvFrom: the datagram and the address and port it was sent from
RecvFrom(d, addr, port) ==
    [kind |-> d.kind, data |-> d.data, size |-> d.size, FromAddr |-> addr, FromPort |-> port]

\* the data socket of the peer of a, and a host that is no candidate of the session
Senders(a) == {<<LocalHostAddr[Peer(a)], 7001>>, <<"6.6.6.6", 7001>>}

SessionInit ==
    /\ agents = [a \in Agents |-> OnConnectionStateChanged_Handle(NewAgent(TurnConfig))]
    /\ ret = Returned("Init", "A", TRUE, NoData)
    /\ outbox = << >>
    /\ sinceRefresh = [a \in Agents |-> 0]
    /\ NothingElse

SessionSignal(a) ==
    \E Type \in SignalTypes, Candidates \in SignalledLists(a) :
        /\ Len(agents[a].RemoteCandidates) + Len(Candidates) <= MaxSessionRemote
        /\ \E env \in StartEnvs(AddRemoteCandidates(agents[a], Candidates)) :
            Commit("OnSignalReceived", a,
                   OnSignalReceived(agents[a], Type, Candidates, env), NoData)

SessionArrives(a) ==
    NetInject(a, {RecvFrom(d, x[1], x[2]) : d \in {HelloRequest, HelloResponse},
                                            x \in Senders(a)})

SessionNext ==
    \/ OpGatherCandidates("A", GoodGatherEnvs(agents["A"]))
    \/ SessionSignal("A")
    \/ OpTick("A", TickEnvs(agents["A"]))
    \/ OpClose("A")
    \/ SessionArrives("A")

SessionSpec == SessionInit /\ [][SessionNext]_vars

----------------------------------------------------------------------------
(* The adapters when ProcessSignals is called again and again *)

FairSigSpec == SigSpec /\ \A p \in Peers : WF_vars(ProcessSignals(p))

----------------------------------------------------------------------------
(* Properties of one agent *)

\* the step is a call of op on agent a
Called(op, a) == ret'.op = op /\ ret'.agent = a

\* C1: once the state of an agent is Connected, every step that is not a call of
\* Close on that agent (a tick with any refresh outcome, a gathering, a remote
\* candidate, a start, a send, a receive, a datagram arriving) leaves it Connected.
C1_ConnectedUntilClose ==
    [][\A a \in Agents :
          agents[a].ConnectionState = "Connected" =>
              \/ agents'[a].ConnectionState = "Connected"
              \/ Called("Close", a)]_vars

\* a connected agent on which StartConnectivityChecks was called, still Connected
C1_Witness ==
    /\ ret.op = "StartConnectivityChecks"
    /\ agents[ret.agent].ConnectionState = "Connected"

\* C2: every step that takes an agent into Connected starts in PerformingHandshake
\* and ends with both handshake flags (sent and received) true.
C2_ConnectedOnlyByHandshake ==
    [][\A a \in Agents :
          agents'[a].ConnectionState = "Connected" /\ agents[a].ConnectionState # "Connected" =>
              /\ agents[a].ConnectionState = "PerformingHandshake"
              /\ agents'[a].bHandshakeSent
              /\ agents'[a].bHandshakeReceived]_vars

\* an agent that a tick has just taken into Connected: the tick answered a request
C2_Witness ==
    /\ ret.op = "Tick"
    /\ agents[ret.agent].ConnectionState = "Connected"
    /\ agents[ret.agent].TimeSinceLastAttempt = 0
    /\ Len(outbox) > 0

\* C3: after Close the state is New, both candidate lists are empty, the TURN
\* allocation is inactive, both sockets are released, both attempt counters are 0,
\* both handshake flags are false and the four timers are 0.
C3_CloseResets ==
    ret.op = "Close" =>
        LET s == agents[ret.agent]
        IN /\ s.ConnectionState = "New"
           /\ s.LocalCandidates = << >>
           /\ s.RemoteCandidates = << >>
           /\ ~s.bTURNAllocationActive
           /\ s.Socket = NoSocket
           /\ ~s.TURNSocket
           /\ s.DirectConnectionAttempts = 0
           /\ s.TotalConnectionAttempts = 0
           /\ ~s.bHandshakeSent
           /\ ~s.bHandshakeReceived
           /\ s.TimeSinceLastAttempt = 0
           /\ s.TimeSinceHandshakeStart = 0
           /\ s.TimeSinceLastHandshakeSend = 0
           /\ s.TimeSinceTURNRefresh = 0

\* Close was called on an agent that had started a relayed attempt on an allocation
\* whose lifetime the server had set
C3_Witness ==
    /\ ret.op = "Close"
    /\ agents[ret.agent].SelectedLocalCandidate.Type = "Relayed"
    /\ agents[ret.agent].TURNAllocationLifetime # DefaultLifetime

\* C4: StartConnectivityChecks entered with TotalConnectionAttempts >= MAX_TOTAL_ATTEMPTS
\* in a state other than Connected sets Failed and returns false, and an agent that is
\* Failed with the budget spent stays Failed in every step that is not a call of Close
\* (SendData and ReceiveData return at once and change nothing).
C4_BudgetExhausted ==
    [][\A a \in Agents :
          LET s == agents[a]
          IN s.TotalConnectionAttempts >= MAX_TOTAL_ATTEMPTS /\ s.ConnectionState # "Connected" =>
                /\ Called("StartConnectivityChecks", a) =>
                       agents'[a].ConnectionState = "Failed" /\ ret'.val = FALSE
                /\ s.ConnectionState = "Failed" =>
                       /\ agents'[a].ConnectionState = "Failed" \/ Called("Close", a)
                       /\ \A p \in Payloads, snd \in SendOutcomes :
                              SendData(s, p, snd) = Result(s, FALSE, << >>)
                       /\ \A inbound \in TurnInbound :
                              ReceiveData(s, inbound) = Result(s, FALSE, NoData)]_vars

\* StartConnectivityChecks has just refused an agent that has candidates and was in a
\* handshake it had sent a HELLO for: only the budget test returns false there
C4_Witness ==
    /\ ret.op = "StartConnectivityChecks"
    /\ ret.val = FALSE
    /\ LET s == agents[ret.agent]
       IN /\ s.ConnectionState = "Failed"
          /\ s.TotalConnectionAttempts >= MAX_TOTAL_ATTEMPTS
          /\ Len(s.LocalCandidates) > 0
          /\ Len(s.RemoteCandidates) > 0
          /\ s.bHandshakeSent

\* C8: StartConnectivityChecks called while the local or the remote candidate list
\* is empty returns false and leaves the connection state, the direct and the total
\* attempt counter, the handshake flags and the two sockets as they were.
C8_NoCandidatesNoChange ==
    [][\A a \in Agents :
          LET s == agents[a]
              t == agents'[a]
          IN /\ Called("StartConnectivityChecks", a)
             /\ Len(s.LocalCandidates) = 0 \/ Len(s.RemoteCandidates) = 0
             => /\ ret'.val = FALSE
                /\ t.ConnectionState = s.ConnectionState
                /\ t.DirectConnectionAttempts = s.DirectConnectionAttempts
                /\ t.TotalConnectionAttempts = s.TotalConnectionAttempts
                /\ t.bHandshakeSent = s.bHandshakeSent
                /\ t.bHandshakeReceived = s.bHandshakeReceived
                /\ t.Socket = s.Socket
                /\ t.TURNSocket = s.TURNSocket]_vars

\* StartConnectivityChecks has just returned false to an agent without candidates,
\* which is now Failed with an attempt counted
C8_Witness ==
    /\ ret.op = "StartConnectivityChecks"
    /\ ret.val = FALSE
    /\ LET s == agents[ret.agent]
       IN /\ Len(s.LocalCandidates) = 0
          /\ Len(s.RemoteCandidates) = 0
          /\ s.ConnectionState = "Failed"
          /\ s.TotalConnectionAttempts = 1

\* C10: SendData returns true only if the transport took the whole payload
\* (BytesSent = Size), on the direct path and on the TURN relay path.
C10_SendAllOrFail ==
    ret.op = "SendData" /\ ret.val = TRUE =>
        /\ Len(outbox) = 1
        /\ outbox[1].snd = "full"

\* SendData has just returned true for a payload the TURN socket took only a part of
C10_Witness ==
    /\ ret.op = "SendData"
    /\ ret.val = TRUE
    /\ UsesRelay(agents[ret.agent])
    /\ Len(outbox) = 1
    /\ outbox[1].sock = "turn"
    /\ outbox[1].snd = "partial"

\* C7: when no HELLO is ever received after StartConnectivityChecks and only Tick is
\* called, the agent ends in Failed only after MAX_DIRECT_ATTEMPTS direct attempts
\* and an attempt of the relayed pair.
C7_TicksExhaustDirectThenRelay ==
    [][\A a \in Agents :
          /\ Called("Tick", a)
          /\ agents[a].ConnectionState # "Failed"
          /\ agents'[a].ConnectionState = "Failed"
          => /\ agents[a].DirectConnectionAttempts >= MAX_DIRECT_ATTEMPTS
             /\ agents[a].SelectedLocalCandidate.Type = "Relayed"]_vars

\* a tick has just ended the first direct attempt in Failed at the handshake timeout
C7_Witness ==
    /\ ret.op = "Tick"
    /\ LET s == agents[ret.agent]
       IN /\ s.ConnectionState = "Failed"
          /\ s.DirectConnectionAttempts = 1
          /\ s.TotalConnectionAttempts = 1
          /\ s.bHandshakeSent
          /\ ~s.bHandshakeReceived
          /\ s.TimeSinceHandshakeStart >= MAX_HANDSHAKE_TIMEOUT

----------------------------------------------------------------------------
(* Properties of the selection of the pair *)

\* the types StartConnectivityChecks filters by in the stage it enters from s
StageTypes(s) ==
    IF s.DirectConnectionAttempts < MAX_DIRECT_ATTEMPTS THEN DirectTypes ELSE RelayTypes

\* c is list[i] up to the port, and list[i] is the earliest candidate of greatest
\* priority among the candidates of list whose type is in types
EarliestGreatest(list, types, c) ==
    \E i \in 1..Len(list) :
        /\ [c EXCEPT !.Port = list[i].Port] = list[i]
        /\ list[i].Type \in types
        /\ \A j \in 1..Len(list) :
              list[j].Type \in types =>
                  /\ list[j].Priority <= list[i].Priority
                  /\ j < i => list[j].Priority < list[i].Priority

HasType(list, types) == \E i \in 1..Len(list) : list[i].Type \in types

\* C9: when StartConnectivityChecks selects a pair, the selected local and the
\* selected remote candidate are each of greatest priority among the candidates of
\* the stage's types (Host and ServerReflexive in the direct stage, Relayed in the
\* relay stage), and among equal priorities the earliest of the list is selected
\* (the port the socket was bound to is written into the selected local candidate).
C9_SelectsEarliestGreatest ==
    [][\A a \in Agents :
          LET s == agents[a]
              t == agents'[a]
          IN /\ Called("StartConnectivityChecks", a)
             /\ s.ConnectionState # "Connected"
             /\ s.TotalConnectionAttempts < MAX_TOTAL_ATTEMPTS
             /\ HasType(s.LocalCandidates, StageTypes(s))
             /\ HasType(s.RemoteCandidates, StageTypes(s))
             => /\ EarliestGreatest(s.LocalCandidates, StageTypes(s), t.SelectedLocalCandidate)
                /\ EarliestGreatest(s.RemoteCandidates, StageTypes(s), t.SelectedRemoteCandidate)
                /\ t.SelectedRemoteCandidate \in
                       {s.RemoteCandidates[i] : i \in 1..Len(s.RemoteCandidates)}]_vars

\* StartConnectivityChecks has just selected the first of two different remote
\* candidates of equal priority
C9_Witness ==
    /\ ret.op = "StartConnectivityChecks"
    /\ ret.val = TRUE
    /\ LET s == agents[ret.agent]
       IN /\ Len(s.RemoteCandidates) >= 2
          /\ \E i, j \in 1..Len(s.RemoteCandidates) :
                /\ i < j
                /\ s.RemoteCandidates[i] # s.RemoteCandidates[j]
                /\ s.RemoteCandidates[i].Priority = s.RemoteCandidates[j].Priority
                /\ s.SelectedRemoteCandidate = s.RemoteCandidates[i]
          /\ s.ConnectionState = "PerformingHandshake"

----------------------------------------------------------------------------
(* Properties of two agents *)

BothConnected == \A a \in Agents : agents[a].ConnectionState = "Connected"

\* C5: two agents that each gather one Host candidate, exchange the gathered lists
\* and both start the checks are, when ticked, eventually both Connected.
C5_BothEventuallyConnected == <>BothConnected

\* both agents have sent their HELLO, received none and timed out
C5_Witness ==
    \A a \in Agents :
        /\ agents[a].ConnectionState = "Failed"
        /\ agents[a].bHandshakeSent
        /\ ~agents[a].bHandshakeReceived
        /\ agents[a].SelectedRemoteCandidate.Type = "Host"
        /\ agents[a].SelectedRemoteCandidate.Port = 0

BothConnectedDirect ==
    /\ BothConnected
    /\ \A a \in Agents : agents[a].SelectedLocalCandidate.Type \in DirectTypes

\* C6: while both agents are Connected over a direct pair, a payload that has arrived
\* on the data socket of an agent leaves the socket only in a call of ReceiveData on
\* that agent that returns it, however the ticks of that agent interleave.
C6_PayloadsReachReceiveData ==
    [][\A b \in Agents :
          LET q == agents[b].Socket.queue
          IN /\ BothConnectedDirect
             /\ agents'[b].ConnectionState = "Connected"
             /\ Len(q) > 0
             /\ Head(q).kind = "App"
             /\ agents'[b].Socket.queue = Tail(q)
             => /\ Called("ReceiveData", b)
                /\ ret'.val = TRUE
                /\ ret'.data = Head(q)]_vars

\* both agents are Connected over their host candidates and a payload sent by A is
\* pending on the data socket of B
C6_Witness ==
    /\ BothConnectedDirect
    /\ ret.op = "SendData"
    /\ ret.agent = "A"
    /\ ret.val = TRUE
    /\ agents["B"].Socket.queue = <<outbox[1].dgram>>

----------------------------------------------------------------------------
(* Properties of the local Host candidates *)

\* the data socket of s is bound for the Host candidate c
BoundFor(s, c) == s.Socket.bound /\ s.Socket.addr = c.Address

\* C15: a local Host candidate has Port = 0 exactly while no data socket is bound
\* for it, and once its port is the non-zero port of the bound socket no call of
\* GatherCandidates, AddRemoteCandidate, StartConnectivityChecks or Tick changes the
\* port again (only Close discards the candidate).
C15_HostPortZeroUntilBoundThenFixed ==
    [][\A a \in Agents :
          LET s == agents[a]
              t == agents'[a]
          IN /\ \A i \in 1..Len(t.LocalCandidates) :
                    t.LocalCandidates[i].Type = "Host" =>
                        (t.LocalCandidates[i].Port = 0 <=> ~BoundFor(t, t.LocalCandidates[i]))
             /\ ~Called("Close", a) =>
                    \A i \in 1..Len(s.LocalCandidates) :
                        s.LocalCandidates[i].Type = "Host" /\ s.LocalCandidates[i].Port # 0 =>
                            /\ i <= Len(t.LocalCandidates)
                            /\ t.LocalCandidates[i] = s.LocalCandidates[i]]_vars

\* GatherCandidates was called while the data socket was bound for the Host
\* candidate: the candidate is published with Port 0 again
C15_Witness ==
    /\ ret.op = "GatherCandidates"
    /\ LET s == agents[ret.agent]
       IN /\ Len(s.LocalCandidates) > 0
          /\ s.LocalCandidates[1].Type = "Host"
          /\ s.LocalCandidates[1].Port = 0
          /\ BoundFor(s, s.LocalCandidates[1])
          /\ s.Socket.port # 0

----------------------------------------------------------------------------
(* Properties of the candidate priority *)

\* the type preference of each candidate type as the specification states it
ClaimedTypePref(T) ==
    IF T = "Host" THEN 126 ELSE IF T = "ServerReflexive" THEN 100 ELSE 0

\* (typePref << 24) | (LP << 8) | (256 - CID) for LP in 0..65535 and CID in 1..256:
\* the three terms occupy bits 24..30, 8..23 and 0..7, so the bitwise or is their sum
ClaimedPriority(T, LP, CID) == ClaimedTypePref(T) * 16777216 + LP * 256 + (256 - CID)

\* the greatest value of a signed 32-bit integer
INT32_MAX == 2147483647

\* C18: for every type, local preference in 0..65535 and component id in 1..256,
\* CalculatePriority returns (typePref << 24) | (LP << 8) | (256 - CID) with typePref
\* 126/100/0 for Host/ServerReflexive/Relayed, the value is within the signed 32-bit
\* range, and every gathered local candidate carries the value for its type, local
\* preference 65535 and component 1, so that Host > ServerReflexive > Relayed.
C18_PriorityFormula ==
    /\ probe.fn = "CalculatePriority" /\ probe.done =>
          /\ probe.result = ClaimedPriority(probe.Type, probe.LocalPreference, probe.ComponentId)
          /\ probe.result >= 0
          /\ probe.result <= INT32_MAX
    /\ \A a \in Agents :
          LET l == agents[a].LocalCandidates
          IN /\ \A i \in 1..Len(l) : l[i].Priority = ClaimedPriority(l[i].Type, 65535, 1)
             /\ \A i, j \in 1..Len(l) :
                   \/ l[i].Type = "Host" /\ l[j].Type # "Host"
                   \/ l[i].Type = "ServerReflexive" /\ l[j].Type = "Relayed"
                   => l[i].Priority > l[j].Priority

\* the priority of a Host candidate of the greatest local preference and component 1
\* has been computed and an agent has gathered a candidate of each type
C18_Witness ==
    /\ probe.fn = "CalculatePriority"
    /\ probe.done
    /\ probe.Type = "Host"
    /\ probe.LocalPreference = 65535
    /\ probe.ComponentId = 1
    /\ probe.result = 2130706431
    /\ \A T \in CandidateTypes :
          \E i \in 1..Len(agents["A"].LocalCandidates) : agents["A"].LocalCandidates[i].Type = T

----------------------------------------------------------------------------
(* Properties of the TURN allocation *)

AllocateRequests(out) ==
    SelectSeq(out, LAMBDA m : m.dgram.kind \in {"Allocate", "AllocateAuth"})

Challenge(reply) ==
    reply.kind = "error" /\ reply.code = 401 /\ reply.realm /\ reply.nonce

HasRelayed(s) ==
    \E i \in 1..Len(s.LocalCandidates) : s.LocalCandidates[i].Type = "Relayed"

\* C11: whatever the TURN server answers, one allocation sends at most two Allocate
\* requests; the first has no credentials; the second is authenticated and is sent
\* only when the first was answered by a 401 Allocate Error with REALM and NONCE;
\* when the second is answered by a 401 too the allocation fails (no relayed
\* candidate, TURN socket destroyed) and no third request is sent.
C11_AtMostTwoAllocates ==
    [][(Called("GatherCandidates", "A") /\ probe.fn = "TurnServer") =>
        LET out == AllocateRequests(outbox')
            replies == probe.env.replies
        IN /\ Len(out) <= 2
           /\ Len(out) = Len(outbox')
           /\ Len(out) >= 1 => out[1].dgram.kind = "Allocate"
           /\ Len(out) = 2 => /\ out[2].dgram.kind = "AllocateAuth"
                              /\ Len(replies) >= 1
                              /\ Challenge(replies[1])
           /\ (Len(out) = 2 /\ replies[2].kind = "error" /\ replies[2].code = 401) =>
                  /\ ~HasRelayed(agents'["A"])
                  /\ ~agents'["A"].TURNSocket]_vars

\* an allocation whose authenticated second request was answered by a 401 has
\* returned after two requests
C11_Witness ==
    /\ ret.op = "GatherCandidates"
    /\ probe.fn = "TurnServer"
    /\ Len(outbox) = 2
    /\ Len(probe.env.replies) >= 2
    /\ Challenge(probe.env.replies[2])
    /\ ~HasRelayed(agents["A"])

\* the Allocate Success that made the allocation succeed
GrantingReply(replies) ==
    IF replies[1].kind = "success" THEN replies[1] ELSE replies[2]

\* C12: after every successful Allocate the allocation is active, the stored lifetime
\* is positive and at most the LIFETIME the server reported (600 when it reported
\* none), and the refresh timer is zero.
C12_SuccessfulAllocate ==
    [][(Called("GatherCandidates", "A") /\ probe.fn = "TurnServer"
            /\ HasRelayed(agents'["A"])) =>
        LET granted == GrantingReply(probe.env.replies)
            reported == IF granted.lifetime = NoLifetime THEN DefaultLifetime
                        ELSE granted.lifetime
        IN /\ agents'["A"].bTURNAllocationActive
           /\ 0 < agents'["A"].TURNAllocationLifetime
           /\ agents'["A"].TURNAllocationLifetime <= reported
           /\ agents'["A"].TimeSinceTURNRefresh = 0]_vars

\* a successful Allocate whose Success response reported LIFETIME 0
C12_Witness ==
    /\ ret.op = "GatherCandidates"
    /\ probe.fn = "TurnServer"
    /\ HasRelayed(agents["A"])
    /\ agents["A"].bTURNAllocationActive
    /\ agents["A"].TURNAllocationLifetime = 0

----------------------------------------------------------------------------
(* Properties of the TURN refresh *)

\* the tick time of a Tick step of an agent that stays in state New
DeltaTimeOf(a) == agents'[a].TimeSinceLastAttempt - agents[a].TimeSinceLastAttempt

\* since: tick time since the last successful Allocate or Refresh
RefreshDue(lifetime, since) == 5 * since >= 4 * lifetime

SentRefresh(out) == \E i \in 1..Len(out) : out[i].dgram.kind = "Refresh"

\* C13: while the allocation is active, a tick sends a Refresh request when it is the
\* first at which the tick time since the last successful Allocate or Refresh has
\* reached 0.8 x lifetime, and sends none while that time is below 0.8 x lifetime.
C13_RefreshWhenDue ==
    [][(Called("Tick", "A") /\ agents["A"].bTURNAllocationActive) =>
        LET lifetime == agents["A"].TURNAllocationLifetime
            before == sinceRefresh["A"]
            since == before + DeltaTimeOf("A")
        IN /\ (RefreshDue(lifetime, since) /\ ~RefreshDue(lifetime, before)) =>
                  SentRefresh(outbox')
           /\ ~RefreshDue(lifetime, since) => ~SentRefresh(outbox')]_vars

\* a tick has returned without a Refresh request although the allocation is active
\* and 0.8 x lifetime has just been reached
C13_Witness ==
    /\ ret.op = "Tick"
    /\ agents["A"].bTURNAllocationActive
    /\ RefreshDue(agents["A"].TURNAllocationLifetime, sinceRefresh["A"])
    /\ sinceRefresh["A"] < RefreshInterval(agents["A"].TURNAllocationLifetime) + 3
    /\ outbox = << >>

\* C14: a tick whose Refresh failed (Refresh Error, or no usable response) leaves the
\* allocation inactive and the refresh timer at 0.8 x lifetime - 30.
C14_FailedRefreshInactive ==
    [][(Called("Tick", "A") /\ agents["A"].bTURNAllocationActive
            /\ agents["A"].TimeSinceTURNRefresh + DeltaTimeOf("A")
                   >= RefreshInterval(agents["A"].TURNAllocationLifetime)
            /\ (sinceRefresh'["A"] > 0 \/ ~agents'["A"].bTURNAllocationActive)) =>
        /\ ~agents'["A"].bTURNAllocationActive
        /\ agents'["A"].TimeSinceTURNRefresh =
               RefreshInterval(agents["A"].TURNAllocationLifetime) - 30]_vars

\* a Refresh request was sent and not answered: the allocation is still active and
\* the timer is 30 below the interval
C14_Witness ==
    /\ ret.op = "Tick"
    /\ SentRefresh(outbox)
    /\ agents["A"].bTURNAllocationActive
    /\ agents["A"].TimeSinceTURNRefresh =
           RefreshInterval(agents["A"].TURNAllocationLifetime) - 30

----------------------------------------------------------------------------
(* Properties of the textual form *)

NoSpace(str) == \A i \in 1..Len(str) : str[i] # " "

\* no string field has a space, and the fields that are written are not empty
WellFormed(c) ==
    /\ NoSpace(c.Foundation) /\ NoSpace(c.Transport) /\ NoSpace(c.Address)
    /\ NoSpace(c.RelatedAddress)
    /\ c.Foundation # << >> /\ c.Transport # << >> /\ c.Address # << >>

\* C16: for every well-formed candidate c, FromString(ToString(c)) equals c in every
\* field.
C16_RoundTrip ==
    (probe.fn = "Candidate" /\ probe.stage = "parsed" /\ WellFormed(probe.c)) =>
        probe.parsed = probe.c

\* a well-formed candidate with a related address has been formatted and parsed
C16_Witness ==
    /\ probe.fn = "Candidate"
    /\ probe.stage = "parsed"
    /\ WellFormed(probe.c)
    /\ probe.c.RelatedAddress # << >>
    /\ probe.parsed.RelatedAddress = << >>

----------------------------------------------------------------------------
(* Properties of the file signaling *)

\* C19: ProcessSignals hands a message it has read to OnSignalReceived if and only if
\* the message's SenderId is not the local peer id and its ReceiverId is empty or the
\* local peer id; the messages are handed over in the order they were read.
C19_DeliveredIffAddressed ==
    [][\A p \in Peers :
        (Called("ProcessSignals", p) /\ peers[p].bIsActive) =>
            LET read == ReadPendingMessages(peers[p], files).val
                addressed == SelectSeq(read, LAMBDA m :
                                 m.SenderId # p /\ (m.ReceiverId = "" \/ m.ReceiverId = p))
            IN delivered'[p] = delivered[p] \o addressed]_vars

\* ProcessSignals has handed over one message and dropped one addressed to another
\* peer
C19_Witness ==
    /\ ret.op = "ProcessSignals"
    /\ Len(delivered[ret.agent]) = 1
    /\ \E f \in files : /\ f.msg.SenderId # ret.agent
                        /\ f.msg.ReceiverId \notin {"", ret.agent}

\* the place of the first delivery of m in seq
FirstDelivery(seq, m) ==
    CHOOSE i \in 1..Len(seq) : seq[i] = m /\ \A j \in 1..(i - 1) : seq[j] # m

\* C20: when a peer has sent m1 and then m2, a receiver that is delivered both is
\* delivered m1 first.
C20_FifoPerSender ==
    \A r \in Peers :
        \A i, j \in 1..Len(delivered[r]) :
            LET m1 == delivered[r][i]
                m2 == delivered[r][j]
            IN (m1.SenderId = m2.SenderId /\ m1.body < m2.body) =>
                   FirstDelivery(delivered[r], m1) < FirstDelivery(delivered[r], m2)

\* a receiver was delivered the second message of a peer before the first, both
\* written in the same second
C20_Witness ==
    \E r \in Peers :
        /\ Len(delivered[r]) = 2
        /\ delivered[r][1].SenderId = delivered[r][2].SenderId
        /\ delivered[r][1].body = 2
        /\ delivered[r][2].body = 1
        /\ \A f \in files : f.name.ts = now

\* C21: no adapter hands the message of one signal file to OnSignalReceived more
\* than once.
C21_DeliveredOnce ==
    \A r \in Peers :
        \A i, j \in 1..Len(delivered[r]) :
            delivered[r][i] = delivered[r][j] => i = j

\* an adapter has handed over the same message in two ProcessSignals calls
C21_Witness ==
    /\ ret.op = "ProcessSignals"
    /\ Len(delivered[ret.agent]) = 2
    /\ delivered[ret.agent][1] = delivered[ret.agent][2]

SignalMessages == [SenderId : Peers, ReceiverId : ReceiverIds, body : 1..MaxSent]

\* ProcessSignals of the active adapter r has just returned and a file with message
\* m, written by another peer for r or for everyone, is in the directory
PresentAtCall(r, m) ==
    /\ ret.op = "ProcessSignals"
    /\ ret.agent = r
    /\ peers[r].bIsActive
    /\ \E f \in files : f.msg = m
    /\ m.SenderId # r
    /\ m.ReceiverId \in {"", r}

WasDelivered(r, m) == \E i \in 1..Len(delivered[r]) : delivered[r][i] = m

\* C22: a signal file of another peer, for this peer or for everyone, that is in the
\* directory at a ProcessSignals call of the active adapter is eventually handed to
\* OnSignalReceived.
C22_EventuallyDelivered ==
    \A r \in Peers :
        \A m \in {x \in SignalMessages : x.SenderId # r /\ x.ReceiverId \in {"", r}} :
            PresentAtCall(r, m) ~> WasDelivered(r, m)

\* ProcessSignals has returned with a file for this peer in the directory that it
\* has not handed over, and with nothing left to read
C22_Witness ==
    \E m \in SignalMessages :
        /\ PresentAtCall(ret.agent, m)
        /\ ~WasDelivered(ret.agent, m)
        /\ peers[ret.agent].LastProcessedMessageIndex = Cardinality(files)

----------------------------------------------------------------------------
(* Properties of the connection states *)

\* C23: GatherCandidates on an agent in state New leaves it in state Gathering, and
\* no agent enters ConnectingDirect straight from New.
C23_GatherEntersGathering ==
    [][\A a \in Agents :
        /\ (Called("GatherCandidates", a) /\ agents[a].ConnectionState = "New") =>
               agents'[a].ConnectionState = "Gathering"
        /\ (agents[a].ConnectionState = "New" /\ agents'[a].ConnectionState # "New") =>
               agents'[a].ConnectionState # "ConnectingDirect"]_vars

\* GatherCandidates has returned with candidates on an agent that is still New
C23_Witness ==
    /\ ret.op = "GatherCandidates"
    /\ ret.val
    /\ agents[ret.agent].ConnectionState = "New"
    /\ Len(agents[ret.agent].LocalCandidates) > 0

\* the tick time of a Tick step of an agent that is performing the handshake
HandshakeDeltaTime(a) ==
    agents'[a].TimeSinceHandshakeStart - agents[a].TimeSinceHandshakeStart

BothFlags(s) == s.bHandshakeSent /\ s.bHandshakeReceived

\* C24: a tick at which the tick time since the agent entered PerformingHandshake has
\* reached MAX_HANDSHAKE_TIMEOUT leaves the agent Connected when both handshake flags
\* are set and Failed otherwise; no agent is in PerformingHandshake with that much
\* tick time behind it.
C24_HandshakeTimesOut ==
    [][\A a \in Agents :
        /\ (Called("Tick", a) /\ agents[a].ConnectionState = "PerformingHandshake"
                /\ agents[a].TimeSinceLastAttempt + HandshakeDeltaTime(a)
                       >= MAX_HANDSHAKE_TIMEOUT) =>
               agents'[a].ConnectionState =
                   IF BothFlags(agents'[a]) THEN "Connected" ELSE "Failed"
        /\ agents'[a].ConnectionState = "PerformingHandshake" =>
               agents'[a].TimeSinceLastAttempt < MAX_HANDSHAKE_TIMEOUT]_vars

\* a tick has failed a handshake whose request was sent and never answered
C24_Witness ==
    /\ ret.op = "Tick"
    /\ agents[ret.agent].ConnectionState = "Failed"
    /\ agents[ret.agent].bHandshakeSent
    /\ ~agents[ret.agent].bHandshakeReceived
    /\ agents[ret.agent].TimeSinceHandshakeStart >= MAX_HANDSHAKE_TIMEOUT

SentHello(out, kind) == \E i \in 1..Len(out) : out[i].dgram.kind = kind

\* the tick time since the last attempt to send a HELLO request: since the last
\* retry or first successful send, or since StartConnectivityChecks when no request
\* was sent in full yet
SinceLastHelloAttempt(s) ==
    IF s.bHandshakeSent THEN s.TimeSinceLastHandshakeSend ELSE s.TimeSinceLastAttempt

\* C25: a tick of an agent in PerformingHandshake that has not received a HELLO and
\* has not timed out sends a HELLO request when HANDSHAKE_RETRY_INTERVAL of tick time
\* has passed since the last send attempt.
C25_ResendsUntilReceived ==
    [][\A a \in Agents :
        (/\ Called("Tick", a)
         /\ agents[a].ConnectionState = "PerformingHandshake"
         /\ ~agents'[a].bHandshakeReceived
         /\ agents[a].TimeSinceHandshakeStart + HandshakeDeltaTime(a) < MAX_HANDSHAKE_TIMEOUT
         /\ agents[a].TimeSinceLastAttempt + HandshakeDeltaTime(a) < MAX_HANDSHAKE_TIMEOUT
         /\ SinceLastHelloAttempt(agents[a]) + HandshakeDeltaTime(a)
                >= HANDSHAKE_RETRY_INTERVAL) =>
            SentHello(outbox', "HelloRequest")]_vars

\* a tick in PerformingHandshake has sent nothing although no HELLO request has gone
\* out in full and none was received
C25_Witness ==
    /\ ret.op = "Tick"
    /\ agents[ret.agent].ConnectionState = "PerformingHandshake"
    /\ agents[ret.agent].Socket.bound
    /\ ~agents[ret.agent].bHandshakeSent
    /\ ~agents[ret.agent].bHandshakeReceived
    /\ agents[ret.agent].TimeSinceLastAttempt >= HANDSHAKE_RETRY_INTERVAL
    /\ outbox = << >>

\* a tick of a reads the handshake packet pkt from its data socket: Tick calls
\* ProcessReceivedData in the states PerformingHandshake and Connected
ReadsHello(a, pkt) ==
    /\ Called("Tick", a)
    /\ agents[a].ConnectionState \in {"PerformingHandshake", "Connected"}
    /\ agents[a].Socket.bound
    /\ Len(agents[a].Socket.queue) > 0
    /\ Head(agents[a].Socket.queue) = pkt

HelloPackets(out) ==
    SelectSeq(out, LAMBDA m : m.dgram.kind \in {"HelloRequest", "HelloResponse"})

\* C26: a tick that reads a HELLO request sets bHandshakeReceived and hands exactly
\* one handshake packet to the data socket, a HELLO response addressed to the
\* selected remote candidate; a tick that reads a HELLO response sets
\* bHandshakeReceived and sends no handshake packet, so that no packet of the
\* exchange is answered more than once.
C26_HelloAnswered ==
    [][\A a \in Agents :
        /\ ReadsHello(a, HelloRequest) =>
              /\ agents'[a].bHandshakeReceived
              /\ Len(HelloPackets(outbox')) = 1
              /\ HelloPackets(outbox')[1].dgram = HelloResponse
              /\ HelloPackets(outbox')[1].sock = "data"
              /\ HelloPackets(outbox')[1].addr = agents[a].SelectedRemoteCandidate.Address
              /\ HelloPackets(outbox')[1].port = agents[a].SelectedRemoteCandidate.Port
        /\ ReadsHello(a, HelloResponse) =>
              /\ agents'[a].bHandshakeReceived
              /\ HelloPackets(outbox') = << >>]_vars

\* a tick has read a HELLO response in PerformingHandshake and completed the handshake
\* without sending anything
C26_Witness ==
    /\ ret.op = "Tick"
    /\ agents[ret.agent].ConnectionState = "Connected"
    /\ agents[ret.agent].bHandshakeReceived
    /\ agents[ret.agent].TimeSinceLastAttempt = 0
    /\ agents[ret.agent].Socket.queue = << >>
    /\ outbox = << >>

----------------------------------------------------------------------------
(* Properties of the relay path *)

SentChannelData(out) == \E i \in 1..Len(out) : out[i].dgram.kind = "ChannelData"

\* C27: SendData frames a payload as ChannelData only if a ChannelBind request was
\* answered with success on the allocation in use; while no channel is bound no
\* ChannelData leaves the agent.
C27_ChannelDataOnlyWhenBound ==
    [][\A a \in Agents :
        (Called("SendData", a) /\ SentChannelData(outbox')) => probe.channelBound]_vars

\* SendData has sent ChannelData although no ChannelBind request was answered with
\* success
C27_Witness ==
    /\ ret.op = "SendData"
    /\ SentChannelData(outbox)
    /\ probe.fn = "Relay"
    /\ ~probe.channelBound

\* C28: while the selected local candidate of an agent is Relayed, every handshake
\* packet the agent sends leaves through the TURN socket, and a tick takes inbound
\* handshake packets from the TURN relay, not from the data socket.
C28_HandshakeThroughRelay ==
    [][\A a \in Agents :
        (/\ ret'.agent = a
         /\ agents'[a].SelectedLocalCandidate.Type = "Relayed") =>
            /\ \A i \in 1..Len(HelloPackets(outbox')) :
                   HelloPackets(outbox')[i].sock = "turn"
            /\ \A pkt \in {HelloRequest, HelloResponse} :
                   ReadsHello(a, pkt) =>
                       agents'[a].Socket.queue = agents[a].Socket.queue]_vars

\* StartConnectivityChecks has set up the relay and handed a HELLO request straight
\* to the data socket
C28_Witness ==
    /\ ret.op = "StartConnectivityChecks"
    /\ agents[ret.agent].SelectedLocalCandidate.Type = "Relayed"
    /\ agents[ret.agent].ConnectionState = "PerformingHandshake"
    /\ probe.fn = "Relay"
    /\ \E i \in 1..Len(outbox) :
           outbox[i].dgram = HelloRequest /\ outbox[i].sock = "data"

----------------------------------------------------------------------------
(* Properties of the requests *)

AuthAttributes == {"USERNAME", "REALM", "NONCE", "MESSAGE-INTEGRITY"}

\* C29: every Refresh, CreatePermission and ChannelBind request carries USERNAME,
\* REALM, NONCE and MESSAGE-INTEGRITY, as the second Allocate request does.
C29_RequestsAuthenticated ==
    (/\ probe.fn = "Request"
     /\ probe.built.MessageType \in {"Refresh", "CreatePermission", "ChannelBind"}) =>
        AuthAttributes \subseteq AttrTypes(probe.built)

\* a Refresh request was sent whose only attributes are LIFETIME and USERNAME
C29_Witness ==
    /\ probe.fn = "Request"
    /\ probe.built.MessageType = "Refresh"
    /\ probe.sendResult = "sent"
    /\ AttrTypes(probe.built) = {"LIFETIME", "USERNAME"}

IntegrityOffset(r) ==
    r.Attributes[CHOOSE i \in 1..Len(r.Attributes) :
                    r.Attributes[i].AttrType = "MESSAGE-INTEGRITY"].AttrOffset

\* the length field is set to the integrity-adjusted value, then the HMAC is taken
\* over the bytes before MESSAGE-INTEGRITY, then the HMAC is copied in, and the
\* length field is not written again
IntegrityInPlace(r) ==
    r.Events = <<Event("SetLength", IntegrityOffset(r) - StunHeaderSize
                                        + MESSAGE_INTEGRITY_ATTR_SIZE),
                 Event("HMAC", IntegrityOffset(r)),
                 Event("CopyHMAC", IntegrityOffset(r) + 4)>>

Aligned(r) == \A i \in 1..Len(r.Attributes) : r.Attributes[i].AttrOffset % 4 = 0

\* C30: whatever the username, realm and nonce, the authenticated Allocate request
\* is sent with MessageLength at the offset of MESSAGE-INTEGRITY from the end of the
\* header plus 24, the HMAC is taken over exactly the bytes before MESSAGE-INTEGRITY
\* with that length in place, and the length is not rewritten afterwards; every
\* attribute of every request starts at a multiple of 4.
C30_IntegrityLength ==
    (probe.fn = "Request" /\ probe.sendResult # "none") =>
        /\ Aligned(probe.built)
        /\ "MESSAGE-INTEGRITY" \in AttrTypes(probe.built) =>
              /\ probe.sendResult = "sent"
              /\ IntegrityInPlace(probe.built)
              /\ HeaderLength(probe.built) = IntegrityOffset(probe.built) - StunHeaderSize
                                                 + MESSAGE_INTEGRITY_ATTR_SIZE

\* the same for the requests that fit the request buffer
IntegrityLengthWithinBuffer ==
    (/\ probe.fn = "Request"
     /\ probe.sendResult # "none"
     /\ probe.built.Offset <= RequestBufferSize) =>
        /\ Aligned(probe.built)
        /\ "MESSAGE-INTEGRITY" \in AttrTypes(probe.built) =>
              /\ probe.sendResult = "sent"
              /\ IntegrityInPlace(probe.built)
              /\ HeaderLength(probe.built) = IntegrityOffset(probe.built) - StunHeaderSize
                                                 + MESSAGE_INTEGRITY_ATTR_SIZE

\* the authenticated Allocate request was written past the end of its buffer
C30_Witness ==
    /\ probe.fn = "Request"
    /\ "MESSAGE-INTEGRITY" \in AttrTypes(probe.built)
    /\ probe.built.Offset > RequestBufferSize
    /\ probe.sendResult = "crash"

----------------------------------------------------------------------------
(* Properties of the fallback to the relay *)

\* StartConnectivityChecks on a enters the direct stage from state s and finds no
\* Host or ServerReflexive candidate on one of the two sides
FallsBack(a, s) ==
    /\ Called("StartConnectivityChecks", a)
    /\ s.ConnectionState # "Connected"
    /\ s.TotalConnectionAttempts < MAX_TOTAL_ATTEMPTS
    /\ Len(s.LocalCandidates) > 0
    /\ Len(s.RemoteCandidates) > 0
    /\ s.DirectConnectionAttempts < MAX_DIRECT_ATTEMPTS
    /\ ~(HasType(s.LocalCandidates, DirectTypes) /\ HasType(s.RemoteCandidates, DirectTypes))

\* C31: a StartConnectivityChecks that runs in the direct stage and finds no direct
\* pair continues with the Relayed local and the Relayed remote candidate of greatest
\* priority as the selected pair, and fails when one of the sides has no Relayed
\* candidate.
C31_FallbackSelectsRelay ==
    [][\A a \in Agents :
          LET s == agents[a]
              t == agents'[a]
          IN FallsBack(a, s) =>
                IF HasType(s.LocalCandidates, RelayTypes) /\ HasType(s.RemoteCandidates, RelayTypes)
                THEN /\ EarliestGreatest(s.LocalCandidates, RelayTypes, t.SelectedLocalCandidate)
                     /\ EarliestGreatest(s.RemoteCandidates, RelayTypes, t.SelectedRemoteCandidate)
                ELSE ~ret'.val /\ t.ConnectionState = "Failed"]_vars

\* StartConnectivityChecks has fallen back in its first attempt although both sides
\* have a Relayed candidate, and has failed without selecting them
C31_Witness ==
    /\ ret.op = "StartConnectivityChecks"
    /\ ~ret.val
    /\ LET s == agents[ret.agent]
       IN /\ s.DirectConnectionAttempts = 1
          /\ s.TotalConnectionAttempts = 1
          /\ HasType(s.LocalCandidates, RelayTypes)
          /\ HasType(s.RemoteCandidates, RelayTypes)
          /\ ~HasType(s.RemoteCandidates, DirectTypes)
          /\ s.SelectedRemoteCandidate.Type # "Relayed"
          /\ s.ConnectionState = "Failed"

----------------------------------------------------------------------------
(* Properties of the request buffer *)

\* uint8 TURNResponse[1024]
ResponseBufferSize == 1024

\* a 401 response with ERROR-CODE, a REALM and a NONCE of these lengths fits the
\* buffer the response is received into
FitsResponse(RealmLen, NonceLen) ==
    StunHeaderSize + 8 + Pad4(4 + RealmLen) + Pad4(4 + NonceLen) <= ResponseBufferSize

\* C32: no TURN request is written at or beyond index 512 of its request buffer,
\* whatever the configured username and whatever REALM and NONCE a 401 response
\* that fits the 1024-byte response buffer carries.
C32_WithinRequestBuffer ==
    (/\ probe.fn = "Request"
     /\ probe.sendResult # "none"
     /\ probe.built.MessageType # "Binding"
     /\ FitsResponse(probe.RealmLen, probe.NonceLen)) =>
        probe.built.Offset <= RequestBufferSize

\* the Allocate retry for a one-character username was written beyond index 512
\* because of the NONCE of the 401 response
C32_Witness ==
    /\ probe.fn = "Request"
    /\ probe.UsernameLen = 1
    /\ FitsResponse(probe.RealmLen, probe.NonceLen)
    /\ probe.built.MessageType = "Allocate"
    /\ probe.built.Offset > RequestBufferSize
    /\ probe.sendResult = "overrun"

----------------------------------------------------------------------------
(* Invariants of one agent *)

\* C33: in every state IsConnected() holds exactly when the connection state is
\* Connected, and that is exactly when bHandshakeSent and bHandshakeReceived are
\* both set.
C33_IndicatorsAgree ==
    \A a \in Agents :
        /\ agents[a].bIsConnected = (agents[a].ConnectionState = "Connected")
        /\ (agents[a].ConnectionState = "Connected")
               = (agents[a].bHandshakeSent /\ agents[a].bHandshakeReceived)

\* a tick has completed the handshake: connected, Connected, and both flags set
C33_Witness ==
    /\ ret.op = "Tick"
    /\ agents[ret.agent].bIsConnected
    /\ agents[ret.agent].ConnectionState = "Connected"
    /\ agents[ret.agent].bHandshakeSent
    /\ agents[ret.agent].bHandshakeReceived
    /\ agents[ret.agent].TimeSinceLastAttempt = 0
    /\ outbox # << >>

CountersInRange(s) ==
    /\ 0 <= s.DirectConnectionAttempts
    /\ s.DirectConnectionAttempts <= MAX_DIRECT_ATTEMPTS
    /\ s.DirectConnectionAttempts <= s.TotalConnectionAttempts
    /\ s.TotalConnectionAttempts <= MAX_TOTAL_ATTEMPTS

\* C34: after every step DirectConnectionAttempts lies between 0 and
\* MAX_DIRECT_ATTEMPTS and TotalConnectionAttempts between DirectConnectionAttempts
\* and MAX_TOTAL_ATTEMPTS, and no step other than a call of Close decreases either
\* counter.
C34_CountersBounded ==
    [][\A a \in Agents :
          /\ CountersInRange(agents[a]) => CountersInRange(agents'[a])
          /\ ~Called("Close", a) =>
                /\ agents'[a].DirectConnectionAttempts >= agents[a].DirectConnectionAttempts
                /\ agents'[a].TotalConnectionAttempts >= agents[a].TotalConnectionAttempts]_vars

\* StartConnectivityChecks has spent the last attempt of both budgets
C34_Witness ==
    /\ ret.op = "StartConnectivityChecks"
    /\ agents[ret.agent].DirectConnectionAttempts = MAX_DIRECT_ATTEMPTS
    /\ agents[ret.agent].TotalConnectionAttempts = MAX_TOTAL_ATTEMPTS

\* c is a candidate of list, up to its port
TakenFrom(list, c) ==
    \E i \in 1..Len(list) : [c EXCEPT !.Port = list[i].Port] = list[i]

\* C35: a StartConnectivityChecks that leaves the agent in PerformingHandshake has
\* taken the selected local candidate (up to its port) from the local candidates and
\* the selected remote candidate from the remote candidates the agent had at that
\* call; as nothing else enters PerformingHandshake or writes the pair, no handshake
\* runs with a default-constructed pair or with a pair of an earlier attempt or
\* session.
C35_PairOfThisAttempt ==
    [][\A a \in Agents :
          (/\ Called("StartConnectivityChecks", a)
           /\ agents[a].ConnectionState # "Connected"
           /\ agents'[a].ConnectionState = "PerformingHandshake") =>
              /\ TakenFrom(agents[a].LocalCandidates, agents'[a].SelectedLocalCandidate)
              /\ agents'[a].SelectedRemoteCandidate \in
                     {agents[a].RemoteCandidates[i] : i \in 1..Len(agents[a].RemoteCandidates)}]_vars

\* the handshake has been started towards a remote candidate that is not among the
\* remote candidates of the agent
C35_Witness ==
    /\ ret.op = "StartConnectivityChecks"
    /\ ret.val
    /\ LET s == agents[ret.agent]
       IN /\ s.ConnectionState = "PerformingHandshake"
          /\ Len(s.RemoteCandidates) > 0
          /\ \A i \in 1..Len(s.RemoteCandidates) :
                s.RemoteCandidates[i] # s.SelectedRemoteCandidate

\* C36: in every state an active TURN allocation implies that the TURN socket
\* exists and that the TURN server address is set.
C36_ActiveHasSocket ==
    \A a \in Agents :
        agents[a].bTURNAllocationActive =>
            agents[a].TURNSocket /\ agents[a].TURNServerAddr

\* GatherCandidates has failed to allocate and has destroyed the TURN socket of an
\* allocation that is still marked active
C36_Witness ==
    /\ ret.op = "GatherCandidates"
    /\ probe.fn = "TurnServer"
    /\ ~HasRelayed(agents["A"])
    /\ agents["A"].bTURNAllocationActive
    /\ ~agents["A"].TURNSocket

----------------------------------------------------------------------------
(* Properties of the closed agent *)

\* C37: after Close an agent behaves as a newly constructed agent with the same
\* configuration: given the same calls and the same platform, server and network
\* behaviour, every call returns the same value, leaves the same connection state
\* and sends the same datagrams to the same destinations on both.
C37_ClosedLikeNew ==
    (probe.fn = "Twin" /\ probe.twinPhase = "twin") =>
        /\ ret.val = probe.twinVal
        /\ outbox = probe.twinOut
        /\ agents["A"].ConnectionState = agents["B"].ConnectionState

\* the same StartConnectivityChecks has started a handshake on the closed agent and
\* has failed on the new one
C37_Witness ==
    /\ probe.fn = "Twin"
    /\ probe.twinPhase = "twin"
    /\ ret.op = "StartConnectivityChecks"
    /\ ret.val
    /\ ~probe.twinVal
    /\ agents["A"].ConnectionState = "PerformingHandshake"
    /\ agents["B"].ConnectionState = "Failed"

----------------------------------------------------------------------------
(* Properties of the session and its agent *)

\* C38: every step that changes the state of an agent leaves its subscriber with
\* the new state as the state notified last, and a step that leaves the state
\* leaves what the subscriber holds; so the subscriber always holds the state
\* GetConnectionState returns.
C38_ChangeNotified ==
    [][\A a \in Agents :
         /\ agents'[a].OnConnectionStateChanged = agents'[a].ConnectionState
         /\ agents'[a].ConnectionState = agents[a].ConnectionState =>
                agents'[a].OnConnectionStateChanged = agents[a].OnConnectionStateChanged]_vars

\* Close has been called on an agent whose subscriber was notified of a state
\* other than New
C38_Witness ==
    /\ ret.op = "Close"
    /\ agents["A"].ConnectionState = "New"
    /\ agents["A"].OnConnectionStateChanged # "New"

\* the datagram ProcessReceivedData reads next is a HELLO sent from the address
\* and port of the selected remote candidate
HelloFromSelected(s) ==
    /\ Len(s.Socket.queue) > 0
    /\ Head(s.Socket.queue).kind \in {"HelloRequest", "HelloResponse"}
    /\ Head(s.Socket.queue).FromAddr = s.SelectedRemoteCandidate.Address
    /\ Head(s.Socket.queue).FromPort = s.SelectedRemoteCandidate.Port

\* C39: a step sets the received flag of the agent, or takes the agent to
\* Connected, only if the datagram it reads is a HELLO whose sender is the
\* selected remote candidate.
C39_HelloFromSelectedOnly ==
    [][(\/ ~agents["A"].bHandshakeReceived /\ agents'["A"].bHandshakeReceived
        \/ /\ agents["A"].ConnectionState # "Connected"
           /\ agents'["A"].ConnectionState = "Connected") =>
          HelloFromSelected(agents["A"])]_vars

\* a tick has read a HELLO of the selected remote candidate and the agent is
\* connected
C39_Witness ==
    /\ ret.op = "Tick"
    /\ agents["A"].ConnectionState = "Connected"
    /\ agents["A"].bHandshakeReceived
    /\ agents["A"].SelectedRemoteCandidate.Address = LocalHostAddr["B"]

\* C40: a signal delivered to the session while the agent is in
\* PerformingHandshake leaves the handshake flags and timers, the data socket and
\* the two attempt counters of the agent as they are.
C40_SignalLeavesHandshake ==
    [][(agents["A"].ConnectionState = "PerformingHandshake" /\ Called("OnSignalReceived", "A")) =>
          /\ agents'["A"].bHandshakeSent = agents["A"].bHandshakeSent
          /\ agents'["A"].bHandshakeReceived = agents["A"].bHandshakeReceived
          /\ agents'["A"].TimeSinceHandshakeStart = agents["A"].TimeSinceHandshakeStart
          /\ agents'["A"].TimeSinceLastHandshakeSend = agents["A"].TimeSinceLastHandshakeSend
          /\ agents'["A"].Socket = agents["A"].Socket
          /\ agents'["A"].DirectConnectionAttempts = agents["A"].DirectConnectionAttempts
          /\ agents'["A"].TotalConnectionAttempts = agents["A"].TotalConnectionAttempts]_vars

\* an Offer or Answer has been delivered during a handshake and the agent is in
\* the handshake of its second attempt
C40_Witness ==
    /\ ret.op = "OnSignalReceived"
    /\ agents["A"].ConnectionState = "PerformingHandshake"
    /\ agents["A"].TotalConnectionAttempts = 2
    /\ Len(agents["A"].RemoteCandidates) = 2

====
